---- MODULE Spec2Model ----
\* AnimeHelper-MCP: the query-and-resilience core.
\*   core/http_client.py  _req / http_get / http_post / err_payload
\*   core/cache.py        _cache_get / _cache_set / gql / cache_info / cache_clear
\*   tools/*.py           search_media, media_details, trending, season_top,
\*                        airing_status, airing_calendar, resolve_title, ...
\* Time is counted in seconds (cache) and sleeps in tenths of a second
\* (transport backoff).
EXTENDS Integers, Sequences, FiniteSets, TLC

VARIABLES
    cache,      \* _CACHE: key -> [exp, data]
    hits,       \* _CACHE_HITS
    misses,     \* _CACHE_MISSES
    now,        \* time.time()
    call,       \* the invocation in progress (locals of the running handler)
    req,        \* the transport request in progress (locals of _req)
    ret         \* what the last finished invocation handed to its caller

vars == <<cache, hits, misses, now, call, req, ret>>

\* ------------------------------------------------------------------------
\* Transport: core/http_client.py
\* ------------------------------------------------------------------------

RETRY_CODES == {429, 500, 502, 503, 504}
MaxAttempts == 3
BackoffStart == 7           \* 0.7 s, in tenths
JitterSpan == 4             \* random.random() * 0.4: jitter in [0, 0.4) s

\* What one call of requests.request can produce.  obj tells which object
\* carries the status: a requests.Response of the HTTP library ("library"),
\* a stand-in object as the unit tests use ("double"), or nothing ("none").
Resp(s, obj)    == [k |-> "resp", status |-> s, obj |-> obj]
HttpErr(s, obj) == [k |-> "httperr", status |-> s, obj |-> obj]
HttpErrBare     == [k |-> "httperr", status |-> 0, obj |-> "none"]
TimeoutErr      == [k |-> "timeout", status |-> 0, obj |-> "none"]
NetErr          == [k |-> "neterr", status |-> 0, obj |-> "none"]
NoOutcome       == [k |-> "none", status |-> 0, obj |-> "none"]

\* bool(response).  requests.Response.__bool__ returns Response.ok, which is
\* False for every status in 400..599; a plain stand-in object is truthy.
Truthy(o) ==
    \/ o.obj = "double"
    \/ o.obj = "library" /\ ~(o.status >= 400 /\ o.status < 600)

\* `getattr(e, "response", None) and e.response.status_code in RETRY_CODES`
RetryableHttp(e) == e.obj # "none" /\ Truthy(e) /\ e.status \in RETRY_CODES

NoReq ==
    [method |-> "none", target |-> "none", attempt |-> 0, backoff |-> BackoffStart,
     sleeps |-> <<>>, log |-> <<>>, st |-> "none", res |-> NoOutcome]

\* _req entered: timeout/headers popped, backoff = 0.7, loop not yet started.
NewReq(method, target) ==
    [NoReq EXCEPT !.method = method, !.target = target, !.st = "running"]

\* A return that raises on error statuses, as raise_for_status would.
ReqReturnOk(r, o) ==
    IF o.status >= 400
    THEN [r EXCEPT !.log = Append(@, o), !.st = "raised", !.res = HttpErr(o.status, o.obj)]
    ELSE [r EXCEPT !.log = Append(@, o), !.st = "returned", !.res = o]

\* One iteration of `for attempt in range(3)`: requests.request produced o,
\* the jitter drawn for a sleep is j tenths.
ReqReturn(r, o) == [r EXCEPT !.log = Append(@, o), !.st = "returned", !.res = o]
ReqRaise(r, o, e) == [r EXCEPT !.log = Append(@, o), !.st = "raised", !.res = e]
\* A sleep that is as long every time.
ReqSleepFlat(r, o, j) ==
    [r EXCEPT !.log = Append(@, o), !.sleeps = Append(@, r.backoff + j),
              !.attempt = r.attempt + 1]

\* `time.sleep(backoff + random.random() * 0.4); backoff *= 2; continue`
ReqSleepContinue(r, o, j) ==
    [r EXCEPT !.log = Append(@, o), !.sleeps = Append(@, r.backoff + j),
              !.backoff = 2 * r.backoff, !.attempt = r.attempt + 1]

\* `except requests.HTTPError as e:` (lines 27-32)
ReqOnHttpError(r, o, e, j) ==
    IF RetryableHttp(e) /\ r.attempt < MaxAttempts - 1
    THEN ReqSleepContinue(r, o, j)
    ELSE ReqRaise(r, o, e)

\* A handler that allows one attempt more.
ReqOnceMore(r, o, j) ==
    IF r.attempt < MaxAttempts
    THEN [r EXCEPT !.log = Append(@, o), !.sleeps = Append(@, r.backoff + j),
                   !.backoff = 2 * r.backoff, !.attempt = r.attempt + 1]
    ELSE [r EXCEPT !.log = Append(@, o), !.st = "raised", !.res = o]

\* A handler that gives up on the first network failure.
ReqRaiseAtOnce(r, o, j) == ReqRaise(r, o, o)

\* `except requests.RequestException:` (lines 33-38)
ReqOnRequestException(r, o, j) ==
    IF r.attempt < MaxAttempts - 1
    THEN ReqSleepContinue(r, o, j)
    ELSE ReqRaise(r, o, o)

\* An iteration without the RETRY_CODES test of line 24.
ReqStepUnchecked(r, o, j) ==
    CASE o.k = "resp" -> ReqReturn(r, o)
      [] o.k = "httperr" -> ReqOnHttpError(r, o, o, j)
      [] OTHER -> ReqOnRequestException(r, o, j)

ReqStep(r, o, j) ==
    CASE o.k = "resp" ->
            IF o.status \in RETRY_CODES
            THEN ReqOnHttpError(r, o, HttpErr(o.status, o.obj), j)
            ELSE ReqReturn(r, o)
      [] o.k = "httperr" -> ReqOnHttpError(r, o, o, j)
      [] OTHER -> ReqOnRequestException(r, o, j)

http_get(target)  == NewReq("GET", target)
http_post(target) == NewReq("POST", target)

\* ------------------------------------------------------------------------
\* A whole transport request, run to its end against a scripted upstream,
\* and what its caller can observe of it.
\* ------------------------------------------------------------------------

RECURSIVE RunReq(_, _, _)
RunReq(r, script, j) ==
    IF r.st # "running" THEN r
    ELSE RunReq(ReqStep(r, script[r.attempt + 1], j), script, j)

\* attempts made, sleeps taken, the response returned or the exception
\* raised; uniform: every attempt was answered like the last one.
Summary(r) ==
    [method |-> r.method, target |-> r.target,
     attempts |-> Len(r.log), sleeps |-> Len(r.sleeps),
     st |-> r.st, res |-> r.res,
     uniform |-> \A i \in DOMAIN r.log : r.log[i] = r.log[Len(r.log)]]

\* ------------------------------------------------------------------------
\* Exceptions (the classes the handlers tell apart) and messages
\* ------------------------------------------------------------------------

Msg(text, num) == [text |-> text, num |-> num]
Exc(type, resp, msg) == [type |-> type, resp |-> resp, msg |-> msg]
NoExc == Exc("none", NoOutcome, Msg("", 0))

\* The exception _req lets through, by what the last attempt produced.
ExcOf(o) ==
    CASE o.k = "timeout" -> Exc("Timeout", NoOutcome, Msg("timed out", 0))
      [] o.k = "neterr" -> Exc("ConnectionError", NoOutcome, Msg("network down", 0))
      [] OTHER -> Exc("HTTPError", o, Msg("upstream", o.status))

\* ------------------------------------------------------------------------
\* Query cache: core/cache.py
\* ------------------------------------------------------------------------

CACHE_TTL == 300

\* JSON values of the 'data' member of a GraphQL answer.
NoneVal == [shape |-> "null", n |-> 0]              \* None / null
PageData(n) == [shape |-> "page", n |-> n]          \* {"Page": {"media": [n items]}}
MediaData == [shape |-> "media", n |-> 1]           \* {"Media": {...}}
BadData == [shape |-> "bad", n |-> 0]               \* an object without the expected member

\* Variable values, all of one record shape.
VInt(i) == [t |-> "int", i |-> i, s |-> ""]
VStr(x) == [t |-> "str", i |-> 0, s |-> x]
VNull == [t |-> "null", i |-> 0, s |-> ""]
VList(x) == [t |-> "list", i |-> 0, s |-> x]

\* A dict given as the sequence of its (name, value) insertions.
DictNames(d) == {d[i][1] : i \in DOMAIN d}
Last(d, name) == CHOOSE i \in DOMAIN d :
                    /\ d[i][1] = name
                    /\ \A m \in DOMAIN d : d[m][1] = name => m <= i

\* json.dumps(variables) without sort_keys: the pairs in insertion order.
DumpAsGiven(d) == d

\* json.dumps(variables, sort_keys=True): the serialization depends on the
\* name -> value mapping alone, not on the insertion order.
DumpSorted(d) == [name \in DictNames(d) |-> d[Last(d, name)][2]]

\* The SHA-1 digests are taken to be collision free: a digest stands for the
\* text it was computed from.
cache_key_gql(query, variables) == [q |-> query, v |-> DumpSorted(variables)]

NoEntry == [exp |-> -1, data |-> NoneVal, present |-> FALSE]
Entry(exp, data) == [exp |-> exp, data |-> data, present |-> TRUE]

MapGet(c, k) == IF k \in DOMAIN c THEN c[k] ELSE NoEntry
MapPop(c, k) == [x \in DOMAIN c \ {k} |-> c[x]]
MapPut(c, k, e) == [x \in DOMAIN c \cup {k} |-> IF x = k THEN e ELSE c[x]]

\* The state a handler works on: the cache module's globals, the clock, and
\* the upstream requests the running invocation has made so far.
StateOf(c, h, m, t) == [cache |-> c, hits |-> h, misses |-> m, now |-> t, reqs |-> <<>>]

Expired(it, t) == it.exp < t

\* A lookup that first drops every expired entry of the map.
cache_get_sweeping(st, k) ==
    LET it == MapGet(st.cache, k)
        live == [x \in {y \in DOMAIN st.cache : ~(st.cache[y].exp < st.now)} |-> st.cache[x]]
    IN  IF ~it.present \/ it.exp < st.now
        THEN [st |-> [st EXCEPT !.cache = live, !.misses = @ + 1], it |-> it, val |-> NoneVal]
        ELSE [st |-> [st EXCEPT !.cache = live, !.hits = @ + 1], it |-> it, val |-> it.data]

\* _cache_get: [st: the state after, it: the entry found, val: the result]
cache_get(st, k) ==
    LET it == MapGet(st.cache, k) IN
    IF ~it.present
    THEN [st |-> [st EXCEPT !.misses = @ + 1], it |-> it, val |-> NoneVal]
    ELSE IF Expired(it, st.now)
         THEN [st |-> [st EXCEPT !.cache = MapPop(@, k), !.misses = @ + 1],
               it |-> it, val |-> NoneVal]
         ELSE [st |-> [st EXCEPT !.hits = @ + 1], it |-> it, val |-> it.data]

\* A store that leaves an entry already there as it is.
cache_set_if_absent(st, k, data) ==
    IF k \in DOMAIN st.cache THEN st
    ELSE [st EXCEPT !.cache = MapPut(@, k, Entry(st.now + CACHE_TTL, data))]

\* _cache_set
cache_set(st, k, data) ==
    [st EXCEPT !.cache = MapPut(@, k, Entry(st.now + CACHE_TTL, data))]

\* What the upstream does with one request: the transport's run (tr), the
\* body of the response if one comes back, the time the exchange takes.
Upstream(tr, body, dt) == [tr |-> tr, body |-> body, dt |-> dt]
GqlBody(json, data) == [json |-> json, data |-> data]

GqlValue(st, val) == [st |-> st, ok |-> TRUE, val |-> val, exc |-> NoExc]
GqlRaise(st, e) == [st |-> st, ok |-> FALSE, val |-> NoneVal, exc |-> e]

\* `cached is not None`
IsCached(val) == val # NoneVal

\* A fetch that stores what it received before looking at it.
gql_fetch_storing(st, k, up) ==
    LET s1 == [st EXCEPT !.reqs = Append(@, up), !.now = @ + up.dt] IN
    IF up.tr.st = "raised" THEN GqlRaise(s1, ExcOf(up.tr.res))
    ELSE CASE up.body.json = "nonjson" ->
                GqlRaise(s1, Exc("JSONDecodeError", NoOutcome, Msg("not json", 0)))
           [] up.body.json = "errors" ->
                GqlRaise(cache_set(s1, k, up.body.data),
                         Exc("RuntimeError", NoOutcome, Msg("errors list", 0)))
           [] up.body.json = "nodata" ->
                GqlRaise(s1, Exc("KeyError", NoOutcome, Msg("data", 0)))
           [] OTHER -> GqlValue(cache_set(s1, k, up.body.data), up.body.data)

\* gql after a lookup that gave nothing: lines 60-69.
gql_fetch(st, k, up) ==
    LET s1 == [st EXCEPT !.reqs = Append(@, up), !.now = @ + up.dt] IN
    IF up.tr.st = "raised" THEN GqlRaise(s1, ExcOf(up.tr.res))
    ELSE CASE up.body.json = "nonjson" ->
                GqlRaise(s1, Exc("JSONDecodeError", NoOutcome, Msg("not json", 0)))
           [] up.body.json = "errors" ->
                GqlRaise(s1, Exc("RuntimeError", NoOutcome, Msg("errors list", 0)))
           [] up.body.json = "nodata" ->
                GqlRaise(s1, Exc("KeyError", NoOutcome, Msg("data", 0)))
           [] OTHER -> GqlValue(cache_set(s1, k, up.body.data), up.body.data)

gql(st, query, variables, up) ==
    LET k == cache_key_gql(query, variables)
        g == cache_get(st, k)
    IN  IF IsCached(g.val) THEN GqlValue(g.st, g.val) ELSE gql_fetch(g.st, k, up)

cache_info(st) ==
    [hits |-> st.hits, misses |-> st.misses,
     size |-> Cardinality(DOMAIN st.cache), ttlSec |-> CACHE_TTL]

\* A clear that reports only the entries still alive.
cache_clear_live(st) ==
    [st |-> [st EXCEPT !.cache = <<>>],
     n |-> Cardinality({k \in DOMAIN st.cache : ~Expired(st.cache[k], st.now)})]

\* cache_clear: [st: the state after, n: the number returned]
cache_clear(st) ==
    [st |-> [st EXCEPT !.cache = <<>>], n |-> Cardinality(DOMAIN st.cache)]

\* ------------------------------------------------------------------------
\* The transport on its own: a caller issues http_get / http_post against an
\* upstream whose answers to the three possible attempts are fixed beforehand
\* (the unit tests' fake_request).
\* ------------------------------------------------------------------------

SeenStatuses == {200, 404, 429, 503}
RespObjects == {"library", "double"}

ScriptOutcomes ==
    {Resp(s, b) : s \in SeenStatuses, b \in RespObjects}
    \cup {HttpErr(s, b) : s \in SeenStatuses \cap RETRY_CODES, b \in RespObjects}
    \cup {HttpErrBare, TimeoutErr, NetErr}

Scripts == [1..MaxAttempts -> ScriptOutcomes]

JitterChoices == {0, JitterSpan - 1}

NoUp == Upstream(Summary(NoReq), GqlBody("none", NoneVal), 0)

NoCall ==
    [op |-> "none", pc |-> "idle", args |-> <<>>, k |-> <<>>, it |-> NoEntry,
     t |-> 0, val |-> NoneVal, up |-> NoUp, reqs |-> <<>>]

Ret(tag, val, exc) == [tag |-> tag, val |-> val, exc |-> exc]
NoRet == Ret("none", NoneVal, NoExc)
Returned(val) == Ret("value", val, NoExc)
Raised(e) == Ret("raise", NoneVal, e)

TransportCall(method) ==
    /\ call.pc = "idle"
    /\ \E script \in Scripts :
          call' = [NoCall EXCEPT !.op = method, !.pc = "attempt",
                                 !.args = [script |-> script]]
    /\ req' = IF method = "GET" THEN http_get("url") ELSE http_post("url")
    /\ ret' = NoRet
    /\ UNCHANGED <<cache, hits, misses, now>>

HttpGetCall == TransportCall("GET")
HttpPostCall == TransportCall("POST")

TransportAttempt ==
    /\ call.pc = "attempt"
    /\ call.op \in {"GET", "POST"}
    /\ req.st = "running"
    /\ \E j \in JitterChoices :
          LET r == ReqStep(req, call.args.script[req.attempt + 1], j) IN
          /\ req' = r
          /\ IF r.st = "running"
             THEN UNCHANGED <<call, ret>>
             ELSE /\ call' = [call EXCEPT !.pc = "done",
                                    !.reqs = <<Upstream(Summary(r), GqlBody("none", NoneVal), 0)>>]
                  /\ ret' = IF r.st = "returned" THEN Returned(r.res)
                            ELSE Raised(ExcOf(r.res))
    /\ UNCHANGED <<cache, hits, misses, now>>

Init ==
    /\ cache = <<>>
    /\ hits = 0
    /\ misses = 0
    /\ now = 0
    /\ call = NoCall
    /\ req = NoReq
    /\ ret = NoRet

NextReq == HttpGetCall \/ HttpPostCall \/ TransportAttempt

SpecReq == Init /\ [][NextReq]_vars

TransportDone == call.pc = "done" /\ call.op \in {"GET", "POST"}

IsTransientAnswer(o) ==
    o.k \in {"resp", "httperr"} /\ o.obj # "none" /\ o.status \in RETRY_CODES

\* C1 (as claimed): when every attempt of a transport request is answered
\* with a status in RETRY_CODES (as a returned response or as an HTTPError
\* carrying the response), exactly 3 attempts are made and the call fails by
\* raising an HTTP error.
C1_RetryBound ==
    (TransportDone /\ \A i \in 1..MaxAttempts : IsTransientAnswer(call.args.script[i]))
        => (Len(req.log) = 3 /\ req.st = "raised" /\ req.res.k = "httperr")

\* C2 (as claimed): a transient status on the first attempt followed by a
\* 200 on the second gives exactly 2 attempts, exactly one backoff sleep and
\* the 200 response returned to the caller.
C2_RetrySuccess ==
    (TransportDone /\ IsTransientAnswer(call.args.script[1])
        /\ call.args.script[2].k = "resp" /\ call.args.script[2].status = 200)
        => (Len(req.log) = 2 /\ Len(req.sleeps) = 1
            /\ req.st = "returned" /\ req.res = call.args.script[2]
            /\ ret = Returned(call.args.script[2]))

\* ------------------------------------------------------------------------
\* The query cache on its own: a caller (tests/test_integration_live.py)
\* calls gql, cache_info and cache_clear while the clock runs.
\* ------------------------------------------------------------------------

MaxLookups == 3             \* a new gql call starts while hits + misses < MaxLookups
MaxTime == 450              \* the clock stops here
TickStep == 150

State == StateOf(cache, hits, misses, now)

IsNetworkFailure(o) == o.k \in {"timeout", "neterr"}

\* C14: when every attempt of a transport request raises a network-level
\* exception, exactly 3 attempts are made (with 2 sleeps between them) and
\* the exception of the 3rd attempt reaches the caller.
C14_NetworkRetry ==
    (TransportDone /\ \A i \in 1..MaxAttempts : IsNetworkFailure(call.args.script[i]))
        => /\ Len(req.log) = 3 /\ Len(req.sleeps) = 2
           /\ req.st = "raised" /\ req.res = call.args.script[3]
           /\ ret = Raised(ExcOf(call.args.script[3]))

\* Connection error, timeout, connection error: the request has ended with
\* the connection error of the third attempt.
C14_Witness ==
    /\ TransportDone
    /\ call.args.script[1].k = "neterr"
    /\ call.args.script[2].k = "timeout"
    /\ call.args.script[3].k = "neterr"
    /\ Len(req.log) = 3
    /\ ret.tag = "raise" /\ ret.exc.type = "ConnectionError"

IsNonTransient(o) == o.k = "resp" /\ o.status \notin RETRY_CODES

\* C15: an attempt that yields a response whose status is not in
\* RETRY_CODES (200, 404) ends the request: that response is returned to
\* the caller, nothing is raised, no sleep is taken and no further attempt
\* is made.
C15_NoRetryNonTransient ==
    [][(/\ call.pc = "attempt" /\ req.st = "running"
        /\ IsNonTransient(call.args.script[req.attempt + 1])
        /\ req' # req) =>
            /\ req'.st = "returned"
            /\ req'.res = call.args.script[req.attempt + 1]
            /\ req'.sleeps = req.sleeps
            /\ Len(req'.log) = Len(req.log) + 1
            /\ req'.attempt = req.attempt
            /\ call'.pc = "done"
            /\ ret' = Returned(call.args.script[req.attempt + 1])]_vars

\* A 404 on the second attempt, after a lost first one, was returned.
C15_Witness ==
    /\ TransportDone
    /\ Len(req.log) = 2 /\ Len(req.sleeps) = 1
    /\ req.log[1].k = "neterr"
    /\ ret.tag = "value" /\ ret.val.k = "resp" /\ ret.val.status = 404

\* C16: a response whose status is in RETRY_CODES is never returned: the
\* attempt that received it is followed by a sleep and another attempt or
\* by a raised failure, and every response handed to the caller has a
\* status outside RETRY_CODES.
C16_TransientNeverReturned ==
    /\ (/\ req.log # <<>>
        /\ req.log[Len(req.log)].k = "resp"
        /\ req.log[Len(req.log)].status \in RETRY_CODES) =>
            \/ req.st = "raised"
            \/ req.st = "running" /\ Len(req.sleeps) = Len(req.log)
    /\ req.st = "returned" => req.res.status \notin RETRY_CODES
    /\ (TransportDone /\ ret.tag = "value") => ret.val.status \notin RETRY_CODES

\* A 503 response was received on the first attempt and the request has
\* returned the 200 of the second.
C16_Witness ==
    /\ TransportDone
    /\ Len(req.log) = 2
    /\ req.log[1].k = "resp" /\ req.log[1].status = 503
    /\ ret.tag = "value" /\ ret.val.status = 200

\* The upstreams the cache is exercised against answer every attempt alike.
SteadyScripts(outcomes) == {[i \in 1..MaxAttempts |-> o] : o \in outcomes}

PostRuns(scripts) == {Summary(RunReq(http_post("anilist"), sc, 0)) : sc \in scripts}

GqlRuns == PostRuns(SteadyScripts({Resp(200, "library"), TimeoutErr}))

Opaque(i) == [shape |-> "opaque", n |-> i]

GqlTestBodies ==
    {GqlBody("nonjson", NoneVal), GqlBody("errors", NoneVal), GqlBody("nodata", NoneVal)}
    \cup {GqlBody("data", d) : d \in {NoneVal, Opaque(1), Opaque(2)}}

\* A raised transport run carries no body.
Upstreams(runs, bodies, dts) ==
    {Upstream(tr, b, dt) : tr \in {x \in runs : x.st = "returned"}, b \in bodies, dt \in dts}
    \cup {Upstream(tr, GqlBody("none", NoneVal), dt) :
            tr \in {x \in runs : x.st = "raised"}, dt \in dts}

GqlUpstreams == Upstreams(GqlRuns, GqlTestBodies, {0, TickStep})

GqlQueries == {"Q", "R"}
GqlVariables ==
    { << <<"q", VStr("x")>>, <<"n", VInt(1)>> >>,
      << <<"n", VInt(1)>>, <<"q", VStr("x")>> >>,
      << <<"q", VStr("y")>>, <<"n", VInt(1)>> >> }

\* The calls made: one query text with each dict, the other with the first.
GqlArgs ==
    {a \in [query : GqlQueries, variables : GqlVariables] :
        a.query = "R" => a.variables[1] = <<"q", VStr("x")>>}

\* gql entered: the key is computed and _cache_get has run (lines 54-55).
GqlLookup ==
    /\ call.pc \in {"idle", "done"}
    /\ hits + misses < MaxLookups
    /\ \E a \in GqlArgs, up \in GqlUpstreams :
          LET query == a.query
              variables == a.variables
              k == cache_key_gql(query, variables)
              g == cache_get(State, k)
          IN  /\ now + up.dt <= MaxTime
              /\ cache' = g.st.cache
              /\ hits' = g.st.hits
              /\ misses' = g.st.misses
              /\ call' = [NoCall EXCEPT !.op = "gql", !.pc = "looked",
                            !.args = [query |-> query, variables |-> variables],
                            !.k = k, !.it = g.it, !.t = now, !.val = g.val, !.up = up]
    /\ ret' = NoRet
    /\ UNCHANGED <<now, req>>

\* `if cached is not None: return cached` (lines 57-58)
GqlReturnCached ==
    /\ call.op = "gql" /\ call.pc = "looked"
    /\ IsCached(call.val)
    /\ call' = [call EXCEPT !.pc = "done"]
    /\ ret' = Returned(call.val)
    /\ UNCHANGED <<cache, hits, misses, now, req>>

\* the rest of gql (lines 60-69): the POST, the body, _cache_set
GqlFetch ==
    /\ call.op = "gql" /\ call.pc = "looked"
    /\ ~IsCached(call.val)
    /\ LET r == gql_fetch(State, call.k, call.up) IN
          /\ cache' = r.st.cache
          /\ hits' = r.st.hits
          /\ misses' = r.st.misses
          /\ now' = r.st.now
          /\ call' = [call EXCEPT !.pc = "done", !.reqs = r.st.reqs]
          /\ ret' = IF r.ok THEN Returned(r.val) ELSE Raised(r.exc)
    /\ UNCHANGED req

CoreCacheInfo ==
    /\ call.pc \in {"idle", "done"}
    /\ call' = [NoCall EXCEPT !.op = "cache_info", !.pc = "done", !.t = now]
    /\ ret' = Returned(cache_info(State))
    /\ UNCHANGED <<cache, hits, misses, now, req>>

CoreCacheClear ==
    /\ call.pc \in {"idle", "done"}
    /\ LET r == cache_clear(State) IN
          /\ cache' = r.st.cache
          /\ call' = [NoCall EXCEPT !.op = "cache_clear", !.pc = "done", !.t = now]
          /\ ret' = Returned(r.n)
    /\ UNCHANGED <<hits, misses, now, req>>

\* Time passes between two steps.
Tick ==
    /\ now + TickStep <= MaxTime
    /\ now' = now + TickStep
    /\ UNCHANGED <<cache, hits, misses, call, req, ret>>

NextGql ==
    GqlLookup \/ GqlReturnCached \/ GqlFetch \/ CoreCacheInfo \/ CoreCacheClear \/ Tick

SpecGql == Init /\ [][NextGql]_vars

GqlDone == call.op = "gql" /\ call.pc = "done"

\* C3 (as claimed): a gql call that finds, under its key, an entry stored by
\* an earlier successful call and not yet expired (lookup time < expiry)
\* returns the stored value and makes no transport request, whatever the
\* upstream would have answered.
C3_CacheHit ==
    (GqlDone /\ call.it.present /\ call.t < call.it.exp)
        => (ret = Returned(call.it.data) /\ call.reqs = <<>>)

\* The step in which gql looks its key up.
LookupStep == call.pc # "looked" /\ call'.op = "gql" /\ call'.pc = "looked"

\* C4 (as claimed): a lookup that finds an entry with expiry T+300 is a hit
\* (hits + 1, entry kept) at every time t < T+300 and a miss that removes the
\* entry (misses + 1) at every time t >= T+300, t = T+300 included.
C4_TTLBoundary ==
    [][(LookupStep /\ call'.it.present) =>
          IF now < call'.it.exp
          THEN /\ hits' = hits + 1 /\ misses' = misses
               /\ MapGet(cache', call'.k) = call'.it
          ELSE /\ misses' = misses + 1 /\ hits' = hits
               /\ call'.k \notin DOMAIN cache']_vars

\* The step in which a gql call that went to the upstream ends by raising.
FetchFails == call.op = "gql" /\ call.pc = "looked" /\ call'.pc = "done" /\ ret'.tag = "raise"

\* C11: a gql call that fails stores nothing.  Its lookup leaves the map as
\* it was or evicts the expired entry under its key, its failing fetch
\* leaves the map as it is, and the next gql call with the same key finds
\* nothing it could return and goes to the transport again.
C11_FailuresNotCached ==
    [][/\ LookupStep =>
            \/ cache' = cache
            \/ /\ call'.it.present /\ Expired(call'.it, now)
               /\ cache' = MapPop(cache, call'.k)
       /\ FetchFails => cache' = cache
       /\ (GqlDone /\ ret.tag = "raise" /\ LookupStep /\ call'.k = call.k) =>
            ~IsCached(call'.val)]_vars

\* A gql call has failed on a GraphQL errors list after its lookup evicted
\* the expired entry of its key.
C11_Witness ==
    /\ GqlDone /\ ret.tag = "raise" /\ ret.exc.type = "RuntimeError"
    /\ call.it.present /\ Expired(call.it, call.t)
    /\ call.k \notin DOMAIN cache
    /\ Len(call.reqs) = 1

\* C20: cache_clear returns the number of entries the map held when it was
\* called, expired ones included, leaves the map empty and the two counters
\* as they were; and no step of gql, cache_info or cache_clear lowers the
\* hit counter or the miss counter.
C20_ClearAndCounters ==
    [][/\ (call'.op = "cache_clear" /\ now' = now) =>
            /\ ret' = Returned(Cardinality(DOMAIN cache))
            /\ cache' = <<>>
            /\ hits' = hits /\ misses' = misses
       /\ hits' >= hits
       /\ misses' >= misses]_vars

\* A clear has removed two entries, after hits and misses were counted and
\* long enough after the start for an entry to have expired.
C20_Witness ==
    /\ call.op = "cache_clear" /\ call.pc = "done"
    /\ ret = Returned(2)
    /\ cache = <<>>
    /\ hits >= 1 /\ misses >= 2
    /\ call.t > CACHE_TTL

\* ------------------------------------------------------------------------
\* gql invocations in flight at once.  The module takes no lock: each
\* thread runs _cache_get statement by statement, and `COUNTER += 1` on a
\* module global is a load of the global followed by a store.  A dict
\* operation (get, pop, item assignment) is one step.  In this
\* specification `call` maps each thread to its own position and locals.
\* ------------------------------------------------------------------------

MaxThreads == 2

Threads == 1..MaxThreads

ThreadKeys ==
    {cache_key_gql(q, v) : q \in {"Q"},
                           v \in {<< <<"q", VStr("x")>>, <<"n", VInt(1)>> >>,
                                  << <<"q", VStr("y")>>, <<"n", VInt(1)>> >>}}

\* sent: the invocation has called the transport; set: the entry it wrote
ThreadIdle ==
    [pc |-> "start", k |-> <<>>, it |-> NoEntry, tmp |-> 0, val |-> NoneVal,
     sent |-> FALSE, set |-> NoEntry]

ThreadUpstreams == {u \in GqlUpstreams : u.dt = 0}

InitThreads ==
    /\ cache = <<>>
    /\ hits = 0
    /\ misses = 0
    /\ now = 0
    /\ call = [t \in Threads |-> ThreadIdle]
    /\ req = NoReq
    /\ ret = NoRet

\* lines 30-33, 37-38: the clock is read, the entry fetched, the branch chosen
ThreadGet(t) ==
    /\ call[t].pc = "start"
    /\ \E k \in ThreadKeys :
          LET it == MapGet(cache, k) IN
          call' = [call EXCEPT ![t] =
                      [@ EXCEPT !.k = k, !.it = it,
                                !.pc = IF ~it.present THEN "load_misses"
                                       ELSE IF Expired(it, now) THEN "pop"
                                       ELSE "load_hits"]]
    /\ UNCHANGED <<cache, hits, misses, now, req, ret>>

\* line 39: `_CACHE.pop(k, None)`
ThreadPop(t) ==
    /\ call[t].pc = "pop"
    /\ cache' = MapPop(cache, call[t].k)
    /\ call' = [call EXCEPT ![t].pc = "load_misses"]
    /\ UNCHANGED <<hits, misses, now, req, ret>>

\* lines 34, 40, 43: the counter is loaded
ThreadLoad(t) ==
    /\ call[t].pc \in {"load_misses", "load_hits"}
    /\ call' = [call EXCEPT ![t] =
                  IF call[t].pc = "load_misses"
                  THEN [@ EXCEPT !.tmp = misses, !.pc = "store_misses"]
                  ELSE [@ EXCEPT !.tmp = hits, !.pc = "store_hits"]]
    /\ UNCHANGED <<cache, hits, misses, now, req, ret>>

\* lines 34-35, 40-41, 43-44: the counter is stored, _cache_get returns
ThreadStore(t) ==
    /\ call[t].pc \in {"store_misses", "store_hits"}
    /\ IF call[t].pc = "store_misses"
       THEN /\ misses' = call[t].tmp + 1
            /\ hits' = hits
            /\ call' = [call EXCEPT ![t] = [@ EXCEPT !.pc = "looked", !.val = NoneVal]]
       ELSE /\ hits' = call[t].tmp + 1
            /\ misses' = misses
            /\ call' = [call EXCEPT ![t] = [@ EXCEPT !.pc = "looked", !.val = call[t].it.data]]
    /\ UNCHANGED <<cache, now, req, ret>>

\* gql lines 57-58
ThreadReturnCached(t) ==
    /\ call[t].pc = "looked"
    /\ IsCached(call[t].val)
    /\ call' = [call EXCEPT ![t].pc = "done"]
    /\ UNCHANGED <<cache, hits, misses, now, req, ret>>

\* gql lines 60-69: the request, and _cache_set if it was answered
ThreadFetch(t) ==
    /\ call[t].pc = "looked"
    /\ ~IsCached(call[t].val)
    /\ \E up \in ThreadUpstreams :
          LET r == gql_fetch(State, call[t].k, up) IN
          /\ cache' = r.st.cache
          /\ call' = [call EXCEPT ![t] =
                        [@ EXCEPT !.pc = "done", !.sent = TRUE,
                                  !.set = IF r.ok THEN MapGet(r.st.cache, call[t].k)
                                          ELSE NoEntry]]
    /\ UNCHANGED <<hits, misses, now, req, ret>>

NextThreads ==
    \/ \E t \in Threads :
          \/ ThreadGet(t) \/ ThreadPop(t) \/ ThreadLoad(t) \/ ThreadStore(t)
          \/ ThreadReturnCached(t) \/ ThreadFetch(t)
    \/ Tick

SpecThreads == InitThreads /\ [][NextThreads]_vars

LookupsCompleted == \A t \in Threads : call[t].pc \in {"looked", "done"}

WellFormedMap ==
    \A k \in DOMAIN cache : cache[k].present /\ cache[k].exp >= CACHE_TTL

\* C12 (as claimed): once each of the N concurrent gql invocations has made
\* its lookup, hits + misses has grown by exactly N and the entry map is a
\* well-formed map from key to (expiry, value).
C12_NoLostUpdates ==
    LookupsCompleted => (hits + misses = MaxThreads /\ WellFormedMap)

\* ------------------------------------------------------------------------
\* Tool operations: tools/*.py
\* ------------------------------------------------------------------------

SCHEMA == "1.0.0"
NoArg == "<none>"                       \* a string argument left at None
PageMax == 25

Min(a, b) == IF a < b THEN a ELSE b
Max(a, b) == IF a > b THEN a ELSE b

\* str.upper() on the strings the model passes as kind, season or format
Upper(x) ==
    CASE x = "anime" -> "ANIME"
      [] x = "manga" -> "MANGA"
      [] x = "Manga" -> "MANGA"
      [] x = "fall" -> "FALL"
      [] x = "tv" -> "TV"
      [] x = "Tv" -> "TV"
      [] x = "movie" -> "MOVIE"
      [] OTHER -> x

\* `min(max(limit, 1), 25)`
ClampLimit(limit) == Min(Max(limit, 1), PageMax)

\* error.code: a fixed word, or "UPSTREAM_" followed by a number
PlainCode(word) == [word |-> word, num |-> -1]
UpstreamCode(sc) == [word |-> "UPSTREAM_", num |-> sc]

\* The mapping a tool returns.  source: the 'source' member ("" when the
\* mapping has none); isrc: the 'source' of the items in 'results';
\* n: the length of 'results' (-1 when there is none); status: 'status'.
Envelope(source, isrc, n, status) ==
    [mapping |-> TRUE, schemaVersion |-> "1.0.0", iserr |-> FALSE,
     code |-> PlainCode(""), esource |-> "", message |-> Msg("", 0),
     source |-> source, isrc |-> isrc, n |-> n, status |-> status]

err_payload(source, code, message) ==
    [mapping |-> TRUE, schemaVersion |-> SCHEMA, iserr |-> TRUE,
     code |-> code, esource |-> source, message |-> message,
     source |-> "", isrc |-> "", n |-> -1, status |-> ""]

\* A function that runs off its end returns None.
PyNone ==
    [mapping |-> FALSE, schemaVersion |-> "", iserr |-> FALSE,
     code |-> PlainCode(""), esource |-> "", message |-> Msg("", 0),
     source |-> "", isrc |-> "", n |-> -1, status |-> ""]

\* `getattr(e, "response", None).status_code if getattr(e, "response", None) else 0`
StatusOf(e) == IF e.resp.obj # "none" /\ Truthy(e.resp) THEN e.resp.status ELSE 0

\* A handler chain without the closing `except Exception`: what the named
\* clauses do not catch leaves the tool as an exception.
HandleNamedOnly(src, e) ==
    CASE e.type = "Timeout" ->
            Returned(err_payload(src, PlainCode("TIMEOUT"), Msg("Upstream timed out", 0)))
      [] e.type = "HTTPError" ->
            Returned(err_payload(src, UpstreamCode(StatusOf(e)), e.msg))
      [] OTHER -> Raised(e)

\* A handler chain whose last clause reports a fixed text, not str(e).
HandleAllTerse(src, e) ==
    CASE e.type = "Timeout" ->
            Returned(err_payload(src, PlainCode("TIMEOUT"), Msg("Upstream timed out", 0)))
      [] e.type = "HTTPError" ->
            Returned(err_payload(src, UpstreamCode(StatusOf(e)), e.msg))
      [] OTHER -> Returned(err_payload(src, PlainCode("UNEXPECTED"), Msg("unexpected", 0)))

\* except requests.Timeout / except requests.HTTPError / except Exception
HandleAll(src, e) ==
    CASE e.type = "Timeout" ->
            Returned(err_payload(src, PlainCode("TIMEOUT"), Msg("Upstream timed out", 0)))
      [] e.type = "HTTPError" ->
            Returned(err_payload(src, UpstreamCode(StatusOf(e)), e.msg))
      [] OTHER -> Returned(err_payload(src, PlainCode("UNEXPECTED"), e.msg))

\* trending: except requests.Timeout / except Exception
HandleTrending(src, e) ==
    CASE e.type = "Timeout" ->
            Returned(err_payload(src, PlainCode("TIMEOUT"), Msg("Upstream timed out", 0)))
      [] OTHER -> Returned(err_payload(src, PlainCode("UNEXPECTED"), e.msg))

\* resolve_title: except Exception
HandleResolve(e) ==
    Returned(err_payload("anilist", PlainCode("UNEXPECTED"), e.msg))

\* `[... for m in data["Page"]["media"]]` on what gql gave: the number of
\* hits, or the exception the subscripting raises.
PageHits(g) ==
    IF ~g.ok THEN [ok |-> FALSE, n |-> 0, exc |-> g.exc]
    ELSE CASE g.val.shape = "page" -> [ok |-> TRUE, n |-> g.val.n, exc |-> NoExc]
           [] g.val.shape = "null" ->
                [ok |-> FALSE, n |-> 0, exc |-> Exc("TypeError", NoOutcome, Msg("NoneType", 0))]
           [] OTHER ->
                [ok |-> FALSE, n |-> 0, exc |-> Exc("KeyError", NoOutcome, Msg("Page", 0))]

\* `data["Media"]` handed to a normalizer or read with .get / ["id"]
MediaOf(g) ==
    IF ~g.ok THEN [ok |-> FALSE, exc |-> g.exc]
    ELSE CASE g.val.shape = "media" -> [ok |-> TRUE, exc |-> NoExc]
           [] g.val.shape = "null" ->
                [ok |-> FALSE, exc |-> Exc("TypeError", NoOutcome, Msg("NoneType", 0))]
           [] OTHER ->
                [ok |-> FALSE, exc |-> Exc("KeyError", NoOutcome, Msg("Media", 0))]

\* The body of a fallback (REST) response: not JSON, JSON that is no
\* object, or an object whose 'data' holds n items (nullFrom: an item with
\* "published": {"from": null}).
JBody(json, n, nullFrom) == [json |-> json, n |-> n, nullFrom |-> nullFrom]

\* `r = http_get(url); payload = r.json(); for it in payload.get("data", [])`:
\* the number of items, or the exception raised on the way.
JikanItems(up) ==
    IF up.tr.st = "raised" THEN [ok |-> FALSE, n |-> 0, exc |-> ExcOf(up.tr.res)]
    ELSE CASE up.body.json = "nonjson" ->
                [ok |-> FALSE, n |-> 0,
                 exc |-> Exc("JSONDecodeError", NoOutcome, Msg("not json", 0))]
           [] up.body.json = "notobj" ->
                [ok |-> FALSE, n |-> 0,
                 exc |-> Exc("AttributeError", NoOutcome, Msg("get", 0))]
           [] OTHER -> [ok |-> TRUE, n |-> up.body.n, exc |-> NoExc]

\* The request is noted among those the invocation made.
Sent(st, up) == [st EXCEPT !.reqs = Append(@, up), !.now = @ + up.dt]

\* Where a handler stands after a stretch of its code: returned (next =
\* "done", ret), or about to send its next upstream request.
Done(st, r) == [next |-> "done", st |-> st, ret |-> r, mid |-> 0]
Go(next, st, mid) == [next |-> next, st |-> st, ret |-> NoRet, mid |-> mid]

\* ---- search_media (tools/search.py:12-115) ----

SearchVars(a) ==
    << <<"q", VStr(a.query)>>, <<"type", VStr(Upper(a.kind))>>,
       <<"per", VInt(ClampLimit(a.limit))>>, <<"formats", VNull>> >>

\* A search that takes an empty primary answer for a failure.
search_media_wanting_hits(st, a, up) ==
    IF a.source = "anilist"
    THEN LET g == gql(st, "search", SearchVars(a), up)
             h == PageHits(g)
         IN  IF h.ok /\ h.n > 0
             THEN Done(g.st, Returned(Envelope("anilist", "anilist",
                                               Min(h.n, ClampLimit(a.limit)), "")))
             ELSE Go("get", g.st, 0)
    ELSE IF a.source = "jikan" THEN Go("get", st, 0)
         ELSE Done(st, Returned(PyNone))

\* lines 24-60, up to the fallback request
\* A search that asks the primary whatever the source.
search_media_primary_first(st, a, up) ==
    LET g == gql(st, "search", SearchVars(a), up)
        h == PageHits(g)
    IN  IF h.ok /\ a.source = "anilist"
        THEN Done(g.st, Returned(Envelope("anilist", "anilist",
                                          Min(h.n, ClampLimit(a.limit)), "")))
        ELSE Go("get", g.st, 0)

search_media(st, a, up) ==
    IF a.source = "anilist"
    THEN LET g == gql(st, "search", SearchVars(a), up)
             h == PageHits(g)
         IN  IF h.ok
             THEN Done(g.st, Returned(Envelope("anilist", "anilist",
                                               Min(h.n, ClampLimit(a.limit)), "")))
             ELSE Go("get", g.st, 0)
    ELSE IF a.source = "jikan" THEN Go("get", st, 0)
         ELSE Done(st, Returned(PyNone))

\* A fallback that labels its answer with the source asked for.
search_fallback_as_asked(st, a, up) ==
    LET s1 == Sent(st, up)
        j == JikanItems(up)
    IN  IF j.ok THEN Done(s1, Returned(Envelope(a.source, "jikan", j.n, "")))
        ELSE Done(s1, HandleAll(a.source, j.exc))

\* lines 62-115: the fallback request and the outer handlers
search_fallback(st, a, up) ==
    LET s1 == Sent(st, up)
        j == JikanItems(up)
    IN  IF j.ok THEN Done(s1, Returned(Envelope("jikan", "jikan", j.n, "")))
        ELSE Done(s1, HandleAll(a.source, j.exc))

\* ---- trending (tools/trending.py:12-81) ----

TrendingVars(a) ==
    << <<"type", VStr(Upper(a.kind))>>, <<"per", VInt(ClampLimit(a.limit))>>,
       <<"formats", VNull>> >>

\* A trending that asks the fallback catalog as well when the primary
\* listed nothing.
trending_wanting_hits(st, a, up) ==
    LET g == gql(st, "trending", TrendingVars(a), up)
        h == PageHits(g)
    IN  IF h.ok /\ h.n > 0
        THEN Done(g.st, Returned(Envelope("", "anilist", Min(h.n, ClampLimit(a.limit)), "")))
        ELSE Go("get", g.st, 0)

trending(st, a, up) ==
    LET g == gql(st, "trending", TrendingVars(a), up)
        h == PageHits(g)
    IN  IF h.ok
        THEN Done(g.st, Returned(Envelope("", "anilist", Min(h.n, ClampLimit(a.limit)), "")))
        ELSE Go("get", g.st, 0)

trending_fallback(st, a, up) ==
    LET s1 == Sent(st, up)
        j == JikanItems(up)
    IN  IF j.ok
        THEN Done(s1, Returned(Envelope("jikan_fallback", "jikan",
                                        Min(j.n, ClampLimit(a.limit)), "")))
        ELSE Done(s1, HandleTrending("anilist", j.exc))

\* ---- season_top (tools/trending.py:84-231) ----

season_from_month(m) ==
    IF m \in {12, 1, 2} THEN "WINTER"
    ELSE IF m \in {3, 4, 5} THEN "SPRING"
    ELSE IF m \in {6, 7, 8} THEN "SUMMER"
    ELSE "FALL"

\* An optional integer argument: None, or the integer given.
NoInt == [some |-> FALSE, v |-> 0]
IntArg(i) == [some |-> TRUE, v |-> i]

\* a.today: datetime.now(timezone.utc)

\* A season taken from the calendar whatever was asked.
SeasonOfToday(a) == Upper(season_from_month(a.today.month))

\* `sea = (season or season_from_month(now.month)).upper()`
SeasonOf(a) ==
    Upper(IF a.season \in {NoArg, ""} THEN season_from_month(a.today.month) ELSE a.season)

\* `yr = int(year or now.year)`
YearOf(a) == IF ~a.year.some \/ a.year.v = 0 THEN a.today.year ELSE a.year.v

\* the variables of the season query (line 111)
SeasonQuery(sea, yr, per, sort) ==
    << <<"type", VStr("ANIME")>>, <<"season", VStr(sea)>>,
       <<"year", VInt(yr)>>, <<"per", VInt(per)>>,
       <<"sort", VList(sort)>>, <<"formats", VNull>> >>

SeasonVars(a) == SeasonQuery(SeasonOf(a), YearOf(a), ClampLimit(a.limit), a.sort)

\* Manga variables that carry the season and the year along.
MangaVarsSeasoned(a) ==
    << <<"type", VStr("MANGA")>>, <<"per", VInt(ClampLimit(a.limit))>>,
       <<"season", VStr(SeasonOf(a))>>, <<"year", VInt(YearOf(a))>> >>

\* the 'season' and 'year' members of a season_top answer
SeasonFields(sea, yr) == [season |-> sea, year |-> yr]

MangaVars(a) == << <<"type", VStr("MANGA")>>, <<"per", VInt(ClampLimit(a.limit))>> >>

season_top(st, a, up) ==
    LET g == IF Upper(a.kind) = "ANIME"
             THEN gql(st, "season", SeasonVars(a), up)
             ELSE gql(st, "manga_trending", MangaVars(a), up)
        h == PageHits(g)
    IN  IF h.ok
        THEN Done(g.st, Returned(
                Envelope("", "anilist", Min(h.n, ClampLimit(a.limit)), "")
                @@ (IF Upper(a.kind) = "ANIME"
                    THEN SeasonFields(VStr(SeasonOf(a)), VInt(YearOf(a)))
                    ELSE SeasonFields(VNull, VNull))))
        ELSE Go("get", g.st, 0)

\* For MANGA each item's year is read with
\* `item.get("published", {}).get("from", "").split("-")[0]`.
season_fallback(st, a, up) ==
    LET s1 == Sent(st, up)
        j == JikanItems(up)
    IN  IF ~j.ok THEN Done(s1, HandleAll("anilist", j.exc))
        ELSE IF Upper(a.kind) # "ANIME" /\ j.n > 0 /\ up.body.nullFrom
             THEN Done(s1, HandleAll("anilist",
                        Exc("AttributeError", NoOutcome, Msg("split", 0))))
             ELSE Done(s1, Returned(
                     Envelope("jikan_fallback", "jikan", Min(j.n, ClampLimit(a.limit)), "")
                     @@ (IF Upper(a.kind) = "ANIME"
                         THEN SeasonFields(VStr(SeasonOf(a)), VInt(YearOf(a)))
                         ELSE SeasonFields(VNull, VNull))))

\* ---- media_details (tools/details.py:10-67) ----

DetailsVars(a) == << <<"id", VInt(a.id)>>, <<"type", VStr(Upper(a.kind))>> >>

\* Details that turn to the fallback catalog when the primary call fails.
media_details_falling_back(st, a, up) ==
    IF a.source = "anilist"
    THEN LET g == gql(st, "details", DetailsVars(a), up)
             m == MediaOf(g)
         IN  IF m.ok THEN Done(g.st, Returned(Envelope("anilist", "", -1, "")))
             ELSE Go("get", g.st, 0)
    ELSE Go("get", st, 0)

media_details(st, a, up) ==
    IF a.source = "anilist"
    THEN LET g == gql(st, "details", DetailsVars(a), up)
             m == MediaOf(g)
         IN  IF m.ok THEN Done(g.st, Returned(Envelope("anilist", "", -1, "")))
             ELSE Done(g.st, HandleAll(a.source, m.exc))
    ELSE Go("get", st, 0)

\* `r.raise_for_status()`
RaisesForStatus(o) == o.status >= 400 /\ o.status < 600

details_fallback(st, a, up) ==
    LET s1 == Sent(st, up) IN
    IF up.tr.st = "raised" THEN Done(s1, HandleAll(a.source, ExcOf(up.tr.res)))
    ELSE IF RaisesForStatus(up.tr.res)
         THEN Done(s1, HandleAll(a.source,
                    Exc("HTTPError", up.tr.res, Msg("for url", up.tr.res.status))))
         ELSE LET j == JikanItems(up) IN
              IF j.ok THEN Done(s1, Returned(Envelope("jikan", "", -1, "")))
              ELSE Done(s1, HandleAll(a.source, j.exc))

\* ---- airing_status, airing_calendar (tools/airing.py) ----

NoId == [some |-> FALSE, id |-> 0]      \* anilist_id left at None
Id(i) == [some |-> TRUE, id |-> i]
FirstId == Id(1)                        \* media[0]["id"] of a resolution answer

\* lines 44-62: the schedule query and the outer handlers
airing_schedule(st, mid, up) ==
    LET g == gql(st, "airing_schedule", << <<"id", VInt(mid)>> >>, up)
        m == MediaOf(g)
    IN  IF m.ok THEN Done(g.st, Returned(Envelope("", "", -1, "")))
        ELSE Done(g.st, HandleAll("anilist", m.exc))

\* airing_status testing `query is None` where the code tests `not query`.
airing_status_none_only(st, a, up) ==
    IF ~a.anilist_id.some
    THEN IF a.query = NoArg
         THEN Done(st, Returned(err_payload("anilist", PlainCode("BAD_REQUEST"),
                                            Msg("Provide anilist_id or query", 0))))
         ELSE LET g == gql(st, "airing_resolve", << <<"q", VStr(a.query)>> >>, up)
                  h == PageHits(g)
              IN  IF ~h.ok THEN Done(g.st, HandleAll("anilist", h.exc))
                  ELSE IF h.n = 0
                       THEN Done(g.st, Returned(Envelope("", "", -1, "NOT_FOUND")))
                       ELSE Go("post", g.st, FirstId.id)
    ELSE airing_schedule(st, a.anilist_id.id, up)

\* airing_status without the `if not media` return.
airing_status_unguarded(st, a, up) ==
    IF ~a.anilist_id.some
    THEN IF a.query \in {NoArg, ""}
         THEN Done(st, Returned(err_payload("anilist", PlainCode("BAD_REQUEST"),
                                            Msg("Provide anilist_id or query", 0))))
         ELSE LET g == gql(st, "airing_resolve", << <<"q", VStr(a.query)>> >>, up)
                  h == PageHits(g)
              IN  IF ~h.ok THEN Done(g.st, HandleAll("anilist", h.exc))
                  ELSE Go("post", g.st, FirstId.id)
    ELSE airing_schedule(st, a.anilist_id.id, up)

\* lines 18-32, up to the schedule query
airing_status(st, a, up) ==
    IF ~a.anilist_id.some
    THEN IF a.query \in {NoArg, ""}
         THEN Done(st, Returned(err_payload("anilist", PlainCode("BAD_REQUEST"),
                                            Msg("Provide anilist_id or query", 0))))
         ELSE LET g == gql(st, "airing_resolve", << <<"q", VStr(a.query)>> >>, up)
                  h == PageHits(g)
              IN  IF ~h.ok THEN Done(g.st, HandleAll("anilist", h.exc))
                  ELSE IF h.n = 0
                       THEN Done(g.st, Returned(Envelope("", "", -1, "NOT_FOUND")))
                       ELSE Go("post", g.st, FirstId.id)
    ELSE airing_schedule(st, a.anilist_id.id, up)

\* A clamp of the days from above only.
ClampDaysAbove(days) == Min(30, days)

\* `max(1, min(30, int(days)))`, `max(1, min(50, int(per_page)))`
ClampDays(days) == Max(1, Min(30, days))
ClampPer(per_page) == Max(1, Min(50, per_page))

\* `{"from": now, "to": until, "per": per}` with until = now + days * 86400
CalendarQuery(t, days, per) ==
    << <<"from", VInt(t)>>, <<"to", VInt(t + days * 86400)>>, <<"per", VInt(per)>> >>

CalendarVars(a, t) == CalendarQuery(t, ClampDays(a.days), ClampPer(a.per_page))

\* the 'days' member of an airing_calendar answer
DaysField(days) == [days |-> days]

\* `(data.get("Page") or {}).get("airingSchedules", [])`
airing_calendar(st, a, up) ==
    LET g == gql(st, "calendar", CalendarVars(a, st.now), up) IN
    IF ~g.ok THEN Done(g.st, HandleAll("anilist", g.exc))
    ELSE IF g.val.shape = "null"
         THEN Done(g.st, HandleAll("anilist",
                    Exc("AttributeError", NoOutcome, Msg("get", 0))))
         ELSE Done(g.st, Returned(Envelope("", "anilist",
                    IF g.val.shape = "page" THEN g.val.n ELSE 0, "")
                    @@ DaysField(VInt(ClampDays(a.days)))))

\* ---- resolve_title (tools/resolve.py) ----

ResolveVars(a) ==
    << <<"q", VStr(a.title)>>, <<"type", VStr(Upper(a.kind))>>, <<"per", VInt(10)>> >>

resolve_title(st, a, up) ==
    LET g == gql(st, "resolve", ResolveVars(a), up)
        h == PageHits(g)
    IN  IF ~h.ok THEN Done(g.st, HandleResolve(h.exc))
        ELSE IF h.n = 0 THEN Done(g.st, Returned(Envelope("", "", -1, "NOT_FOUND")))
             ELSE Done(g.st, Returned(Envelope("", "", -1, "")))

\* ---- cache_info, cache_clear (tools/cache_tools.py), health (tools/meta.py) ----

tool_cache_info(st) == Done(st, Returned(Envelope("", "", -1, "") @@ cache_info(st)))
tool_cache_clear(st) ==
    LET r == cache_clear(st) IN
    Done(r.st, Returned(Envelope("", "", -1, "") @@ [cleared |-> r.n]))
health(st) == Done(st, Returned(Envelope("", "", -1, "")))

\* ------------------------------------------------------------------------
\* The tools served one invocation at a time.  A handler is taken in one
\* step, from its call to its return, against the upstream behaviour drawn
\* for each request it sends.
\* ------------------------------------------------------------------------

MaxToolLookups == 1         \* a tool is invoked while hits + misses < MaxToolLookups
MaxItems == 2               \* an upstream answer lists 0..MaxItems items

ToolOutcomes ==
    {Resp(200, "library"), Resp(404, "library"), Resp(503, "library"),
     HttpErr(503, "double"), HttpErrBare, TimeoutErr, NetErr}

\* every attempt answered alike, or a first attempt lost and the next answered
ToolScripts ==
    SteadyScripts(ToolOutcomes)
    \cup {[i \in 1..MaxAttempts |-> IF i = 1 THEN TimeoutErr ELSE Resp(200, "library")]}

GetRuns(scripts) == {Summary(RunReq(http_get("jikan"), sc, 0)) : sc \in scripts}

ToolPostRuns == PostRuns(ToolScripts)
ToolGetRuns == GetRuns(ToolScripts)

\* An upstream answers a refused request with an error body.
JsonFailures == {GqlBody("nonjson", NoneVal), GqlBody("errors", NoneVal)}

PageBodies ==
    JsonFailures \cup {GqlBody("nodata", NoneVal)}
    \cup {GqlBody("data", d) : d \in {NoneVal, BadData} \cup {PageData(n) : n \in 0..MaxItems}}

MediaBodies ==
    JsonFailures \cup {GqlBody("nodata", NoneVal)}
    \cup {GqlBody("data", d) : d \in {NoneVal, BadData, MediaData}}

JikanBodies ==
    {JBody("nonjson", 0, FALSE), JBody("notobj", 0, FALSE)}
    \cup {JBody("obj", n, f) : n \in 0..MaxItems, f \in BOOLEAN}

JikanRefusals == {JBody("nonjson", 0, FALSE), JBody("obj", 0, FALSE)}

NoBody == GqlBody("none", NoneVal)

Exchanges(runs, bodies, refusals) ==
    {Upstream(tr, b, 0) : tr \in {x \in runs : x.st = "returned" /\ x.res.status = 200},
                          b \in bodies}
    \cup {Upstream(tr, b, 0) : tr \in {x \in runs : x.st = "returned" /\ x.res.status # 200},
                               b \in refusals}
    \cup {Upstream(tr, NoBody, 0) : tr \in {x \in runs : x.st = "raised"}}

PageUps == Exchanges(ToolPostRuns, PageBodies, JsonFailures)
MediaUps == Exchanges(ToolPostRuns, MediaBodies, JsonFailures)
JikanUps == Exchanges(ToolGetRuns, {b \in JikanBodies : b.nullFrom => b.n > 0}, JikanRefusals)

Days == {[month |-> 1, year |-> 2025], [month |-> 7, year |-> 2025]}

SearchArgs ==
    [query : {"x"}, kind : {"anime"}, source : {"anilist", "jikan", "kitsu"},
     limit : {0, 100}]
DetailsArgs == [source : {"anilist", "jikan"}, id : {1}, kind : {"anime"}]
TrendingArgs == [kind : {"anime"}, limit : {10}]
\* ANIME with and without a season and a year, on a day of January when
\* neither is given; MANGA in two spellings, bare and with everything given
SeasonArgs ==
    {a \in [kind : {"anime", "manga", "Manga"}, season : {NoArg, "fall"},
            year : {NoInt, IntArg(2020)}, limit : {100}, sort : {"TRENDING_DESC"},
            today : Days] :
        /\ a.today.month = 1 => (a.kind = "anime" /\ a.season = NoArg /\ ~a.year.some)
        /\ a.kind = "manga" => (a.season = NoArg /\ ~a.year.some)
        /\ a.kind = "Manga" => (a.season = "fall" /\ a.year.some)}
AiringArgs ==
    {a \in [anilist_id : {NoId, Id(1)}, query : {NoArg, "", "x"}] :
        a.anilist_id.some => a.query # ""}
CalendarArgs ==
    {[days |-> 7, per_page |-> 50], [days |-> 0, per_page |-> 100],
     [days |-> 45, per_page |-> -2]}
ResolveArgs == [title : {"x"}, kind : {"anime"}, prefer_format : {NoArg}]

CanInvoke == call.pc = "idle" /\ hits + misses < MaxToolLookups

\* The handler has returned (or let an exception through).
Finish(op, a, p) ==
    /\ cache' = p.st.cache
    /\ hits' = p.st.hits
    /\ misses' = p.st.misses
    /\ now' = p.st.now
    /\ call' = [NoCall EXCEPT !.op = op, !.pc = "done", !.args = a, !.t = now,
                              !.reqs = p.st.reqs]
    /\ ret' = p.ret
    /\ UNCHANGED req

Fallback(op, st, a, up) ==
    CASE op = "search_media" -> search_fallback(st, a, up)
      [] op = "trending" -> trending_fallback(st, a, up)
      [] op = "season_top" -> season_fallback(st, a, up)
      [] OTHER -> details_fallback(st, a, up)

\* The handler goes on from where p left it.
Proceed(op, a, p) ==
    CASE p.next = "done" -> Finish(op, a, p)
      [] p.next = "get" -> \E up \in JikanUps : Finish(op, a, Fallback(op, p.st, a, up))
      [] OTHER -> \E up \in MediaUps : Finish(op, a, airing_schedule(p.st, p.mid, up))

\* the primary's answer is of no account to a call that does not ask it
FirstOf(ups) == CHOOSE u \in ups : TRUE

\* Only a call with source 'anilist' consults the cache; once the lookups
\* are used up the others are still taken while the clock is at most here.
FreeCallsUntil == 0

SearchMedia ==
    /\ call.pc = "idle"
    /\ \E a \in SearchArgs, up \in PageUps :
          /\ a.source = "anilist" => hits + misses < MaxToolLookups
          /\ a.source # "anilist" => up = FirstOf(PageUps)
          /\ a.source # "anilist" =>
                (hits + misses < MaxToolLookups \/ now <= FreeCallsUntil)
          /\ Proceed("search_media", a, search_media(State, a, up))

MediaDetails ==
    /\ call.pc = "idle"
    /\ \E a \in DetailsArgs, up \in MediaUps :
          /\ a.source = "anilist" => hits + misses < MaxToolLookups
          /\ a.source # "anilist" => up = FirstOf(MediaUps)
          /\ a.source # "anilist" =>
                (hits + misses < MaxToolLookups \/ now <= FreeCallsUntil)
          /\ Proceed("media_details", a, media_details(State, a, up))

Trending ==
    /\ CanInvoke
    /\ \E a \in TrendingArgs, up \in PageUps :
          Proceed("trending", a, trending(State, a, up))

SeasonTop ==
    /\ CanInvoke
    /\ \E a \in SeasonArgs, up \in PageUps :
          Proceed("season_top", a, season_top(State, a, up))

\* A call with neither id nor query consults nothing, so it is taken
\* whatever the number of lookups made so far.
AiringStatus ==
    /\ call.pc = "idle"
    /\ \E a \in AiringArgs :
          /\ (a.anilist_id.some \/ a.query \notin {NoArg, ""}) =>
                hits + misses < MaxToolLookups
          /\ \E up \in (IF a.anilist_id.some THEN MediaUps ELSE PageUps) :
                Proceed("airing_status", a, airing_status(State, a, up))

AiringCalendar ==
    /\ CanInvoke
    /\ \E a \in CalendarArgs, up \in PageUps :
          Proceed("airing_calendar", a, airing_calendar(State, a, up))

ResolveTitle ==
    /\ CanInvoke
    /\ \E a \in ResolveArgs, up \in PageUps :
          Proceed("resolve_title", a, resolve_title(State, a, up))

CacheInfo ==
    /\ call.pc = "idle"
    /\ Finish("cache_info", <<>>, tool_cache_info(State))

CacheClear ==
    /\ call.pc = "idle"
    /\ Finish("cache_clear", <<>>, tool_cache_clear(State))

Health ==
    /\ call.pc = "idle"
    /\ Finish("health", <<>>, health(State))

\* The result has gone out to the client; the server awaits the next call.
Respond ==
    /\ call.pc = "done"
    /\ call.op \notin {"none", "gql", "GET", "POST"}
    /\ call' = NoCall
    /\ ret' = NoRet
    /\ UNCHANGED <<cache, hits, misses, now, req>>

\* Time passes between two invocations (a handler is taken in one step).
Idle == call.pc = "idle" /\ Tick

Next ==
    \/ Respond
    \/ SearchMedia \/ MediaDetails \/ Trending \/ SeasonTop
    \/ AiringStatus \/ AiringCalendar \/ ResolveTitle
    \/ CacheInfo \/ CacheClear \/ Health \/ Idle

Spec == Init /\ [][Next]_vars

\* ------------------------------------------------------------------------
\* Properties of the tools
\* ------------------------------------------------------------------------

CatalogTools ==
    {"search_media", "media_details", "trending", "season_top",
     "airing_status", "airing_calendar", "resolve_title"}
AllTools == CatalogTools \cup {"cache_info", "cache_clear", "health"}

ToolDone == call.pc = "done" /\ call.op \in AllTools

\* the last upstream request the finished invocation made
LastReq == call.reqs[Len(call.reqs)]

RunFailed(u) == u.tr.st = "raised"

\* C5 (as claimed): whatever the tool, its arguments and the upstream
\* behaviour, a tool returns a mapping whose schemaVersion is "1.0.0".
C5_EnvelopeInvariant ==
    ToolDone => (ret.tag = "value" /\ ret.val.mapping /\ ret.val.schemaVersion = "1.0.0")

\* C6: an invocation of one of the seven catalog tools ends by returning a
\* value, never by raising, whatever failed on the primary catalog, the
\* fallback catalog or both.
C6_NoFailureCrosses ==
    (call.pc = "done" /\ call.op \in CatalogTools) => ret.tag = "value"

\* season_top has returned after its primary request and its fallback
\* request were both lost, the fallback to a connection error.
C6_Witness ==
    /\ call.pc = "done" /\ call.op = "season_top"
    /\ Len(call.reqs) = 2
    /\ RunFailed(call.reqs[1])
    /\ RunFailed(call.reqs[2]) /\ call.reqs[2].tr.res.k = "neterr"
    /\ ret.tag = "value" /\ ret.val.iserr

FallbackSent == call.reqs # <<>> /\ LastReq.tr.method = "GET"

\* the fallback request was answered 200 with a JSON object
FallbackSucceeded ==
    /\ LastReq.tr.st = "returned"
    /\ LastReq.tr.res.status = 200
    /\ LastReq.body.json = "obj"

WithFallback ==
    /\ call.pc = "done"
    /\ call.op \in {"search_media", "trending", "season_top"}
    /\ (call.op = "search_media" => call.args.source = "anilist")

\* C7 (as claimed): when search_media(source='anilist'), trending or
\* season_top went to the fallback catalog because the primary call failed,
\* an error envelope is returned if and only if the fallback failed too, and
\* a result that is no error lists items of the fallback catalog.
C7_AutomaticFallback ==
    (WithFallback /\ FallbackSent) =>
        /\ ret.tag = "value" /\ ret.val.mapping
        /\ ret.val.iserr <=> ~FallbackSucceeded
        /\ ~ret.val.iserr => ret.val.isrc = "jikan"

\* the last request was given up on a transient status carried by a
\* response, every attempt having been answered the same way
LastTransient ==
    /\ call.reqs # <<>>
    /\ RunFailed(LastReq)
    /\ IsTransientAnswer(LastReq.tr.res)
    /\ LastReq.tr.uniform

\* C8 (as claimed): when the last upstream request of search_media,
\* media_details, trending, season_top, airing_status or airing_calendar
\* was given up on a response of transient status s, the error code is
\* "UPSTREAM_" followed by s.
C8_UpstreamCode ==
    (call.pc = "done" /\ call.op \in CatalogTools \ {"resolve_title"} /\ LastTransient) =>
        /\ ret.tag = "value" /\ ret.val.iserr
        /\ ret.val.code = UpstreamCode(LastReq.tr.res.status)

\* C9 (as claimed): media_details(source='jikan') whose lookup is answered
\* 404 makes one attempt and returns the error UPSTREAM_404 with source
\* "jikan".
C9_Details404 ==
    (/\ call.pc = "done" /\ call.op = "media_details" /\ call.args.source = "jikan"
     /\ LastReq.tr.st = "returned" /\ LastReq.tr.res.status = 404) =>
        /\ LastReq.tr.attempts = 1
        /\ ret.tag = "value" /\ ret.val.iserr
        /\ ret.val.code = UpstreamCode(404)
        /\ ret.val.esource = "jikan"

\* C10 (as claimed): for every tool, when the third attempt of its last
\* upstream request times out, the error code is "TIMEOUT".
C10_TimeoutCode ==
    (/\ ToolDone /\ call.reqs # <<>>
     /\ RunFailed(LastReq) /\ LastReq.tr.res.k = "timeout"
     /\ LastReq.tr.attempts = MaxAttempts) =>
        /\ ret.tag = "value" /\ ret.val.iserr
        /\ ret.val.code = PlainCode("TIMEOUT")
\* C13 (as claimed): whatever the limit and the upstream reply,
\* search_media returns at most min(max(limit, 1), 25) results, on the
\* primary path and on the fallback path alike.
C13_LimitClamping ==
    (/\ call.pc = "done" /\ call.op = "search_media"
     /\ ret.tag = "value" /\ ret.val.mapping /\ ~ret.val.iserr) =>
        ret.val.n <= ClampLimit(call.args.limit)
\* The step that takes a whole airing_status invocation.
AiringStep == call.pc = "idle" /\ call'.op = "airing_status" /\ call'.pc = "done"

\* C17: with no anilist_id and a query that is absent or empty,
\* airing_status returns the BAD_REQUEST error envelope without looking
\* anything up and without any upstream request.
C17_BadRequest ==
    [][(/\ AiringStep
        /\ ~call'.args.anilist_id.some
        /\ call'.args.query \in {NoArg, ""}) =>
            /\ ret'.tag = "value" /\ ret'.val.iserr
            /\ ret'.val.code = PlainCode("BAD_REQUEST")
            /\ call'.reqs = <<>>
            /\ cache' = cache /\ hits' = hits /\ misses' = misses]_vars

\* airing_status(query="") has answered BAD_REQUEST while the cache held an
\* entry and a miss had been counted.
C17_Witness ==
    /\ call.pc = "done" /\ call.op = "airing_status"
    /\ ~call.args.anilist_id.some /\ call.args.query = ""
    /\ ret.val.iserr /\ ret.val.code = PlainCode("BAD_REQUEST")
    /\ misses = 1 /\ cache # <<>>

ResolveKey(a) == cache_key_gql("airing_resolve", << <<"q", VStr(a.query)>> >>)
ScheduleKey(mid) == cache_key_gql("airing_schedule", << <<"id", VInt(mid)>> >>)

\* What the title resolution of the invocation taken in this step gave: the
\* live cached value, else the 'data' of the answer to its request (null
\* when the request failed).
ResolutionData ==
    LET e == MapGet(cache, ResolveKey(call'.args)) IN
    IF e.present /\ ~Expired(e, now) /\ IsCached(e.data) THEN e.data
    ELSE IF /\ call'.reqs # <<>>
            /\ call'.reqs[1].tr.st = "returned"
            /\ call'.reqs[1].body.json = "data"
         THEN call'.reqs[1].body.data
         ELSE NoneVal

\* C18: airing_status given only a query whose resolution finds no
\* candidate returns status "NOT_FOUND" with no error and makes no schedule
\* query (one lookup, at most one request); when the resolution finds a
\* candidate the schedule query follows it (a second lookup, its request
\* after the resolution's) and is made for the first candidate's id.
C18_NotFound ==
    [][(/\ AiringStep
        /\ ~call'.args.anilist_id.some
        /\ call'.args.query \notin {NoArg, ""}) =>
            /\ ResolutionData = PageData(0) =>
                  /\ ret'.tag = "value" /\ ~ret'.val.iserr
                  /\ ret'.val.status = "NOT_FOUND"
                  /\ hits' + misses' = hits + misses + 1
                  /\ Len(call'.reqs) <= 1
                  /\ ScheduleKey(FirstId.id) \in DOMAIN cache' =>
                        ScheduleKey(FirstId.id) \in DOMAIN cache
            /\ (ResolutionData.shape = "page" /\ ResolutionData.n > 0) =>
                  /\ ret'.tag = "value" /\ ret'.val.status # "NOT_FOUND"
                  /\ hits' + misses' = hits + misses + 2
                  /\ Len(call'.reqs) <= 2
                  /\ ~ret'.val.iserr => ScheduleKey(FirstId.id) \in DOMAIN cache']_vars

\* airing_status(query="x") has answered NOT_FOUND after the one request of
\* its resolution, which listed no candidate.
C18_Witness ==
    /\ call.pc = "done" /\ call.op = "airing_status"
    /\ ~call.args.anilist_id.some /\ call.args.query = "x"
    /\ Len(call.reqs) = 1 /\ call.reqs[1].body.data = PageData(0)
    /\ ret.tag = "value" /\ ~ret.val.iserr /\ ret.val.status = "NOT_FOUND"

\* C19 (as claimed): airing_status called with neither anilist_id nor
\* query, and likewise called with both, is answered with the BAD_REQUEST
\* envelope and no upstream query.
C19_ExactlyOne ==
    (/\ call.pc = "done" /\ call.op = "airing_status"
     /\ call.args.anilist_id.some <=> call.args.query # NoArg) =>
        /\ ret.tag = "value" /\ ret.val.iserr
        /\ ret.val.code = PlainCode("BAD_REQUEST")
        /\ call.reqs = <<>>
SearchSucceeded ==
    /\ call.pc = "done" /\ call.op = "search_media"
    /\ ret.tag = "value" /\ ret.val.mapping /\ ~ret.val.iserr

\* the primary call of the finished search gave a page of hits: from the
\* cache, or as the answer to its one request
PrimaryAnswered ==
    /\ call.args.source = "anilist"
    /\ \/ call.reqs = <<>>
       \/ /\ Len(call.reqs) = 1
          /\ call.reqs[1].tr.method = "POST" /\ call.reqs[1].tr.st = "returned"
          /\ call.reqs[1].body.json = "data" /\ call.reqs[1].body.data.shape = "page"

\* C21: a successful search_media answer names in 'source' the catalog its
\* results came from ("anilist" exactly when the primary call succeeded,
\* "jikan" when the fallback catalog answered, asked for or fallen back
\* to), and every hit carries the same source.
C21_SourceUsed ==
    SearchSucceeded =>
        /\ ret.val.source \in {"anilist", "jikan"}
        /\ ret.val.isrc = ret.val.source
        /\ ret.val.source = "anilist" <=> PrimaryAnswered
        /\ ret.val.source = "jikan" <=>
              (FallbackSent /\ LastReq.tr.st = "returned" /\ LastReq.body.json = "obj")

\* A search asked of the primary catalog was answered by the fallback
\* catalog after the primary request failed.
C21_Witness ==
    /\ SearchSucceeded
    /\ call.args.source = "anilist"
    /\ Len(call.reqs) = 2 /\ RunFailed(call.reqs[1])
    /\ ret.val.source = "jikan" /\ ret.val.n >= 1
SearchDone == call.pc = "done" /\ call.op = "search_media"

\* the primary request of the finished search was answered with no hits
PrimaryEmpty ==
    /\ call.args.source = "anilist"
    /\ call.reqs # <<>>
    /\ call.reqs[1].tr.method = "POST" /\ call.reqs[1].tr.st = "returned"
    /\ call.reqs[1].body.json = "data" /\ call.reqs[1].body.data = PageData(0)

\* the fallback request of the finished search was answered with no items
FallbackEmpty ==
    /\ FallbackSent /\ FallbackSucceeded
    /\ LastReq.body.n = 0

\* C22: when the catalog search_media consults answers successfully with
\* zero items the call returns an empty result list and no error, and a
\* successful primary answer with zero hits sends nothing to the fallback
\* catalog.
C22_EmptyNotFailure ==
    /\ (SearchDone /\ PrimaryEmpty) =>
          /\ ret.tag = "value" /\ ret.val.mapping /\ ~ret.val.iserr
          /\ ret.val.n = 0 /\ ret.val.source = "anilist"
          /\ Len(call.reqs) = 1
    /\ (SearchDone /\ FallbackEmpty) =>
          /\ ret.tag = "value" /\ ret.val.mapping /\ ~ret.val.iserr
          /\ ret.val.n = 0 /\ ret.val.source = "jikan"

\* A search was answered by the primary catalog with an empty page and has
\* returned an empty result list after that one request.
C22_Witness ==
    /\ SearchDone /\ PrimaryEmpty
    /\ Len(call.reqs) = 1
    /\ ret.val.n = 0 /\ ~ret.val.iserr
SeasonDone == call.pc = "done" /\ call.op = "season_top"

\* the first request of the finished invocation was a primary query whose
\* answer carried a 'data' member (which gql then stored under its key)
PrimaryStored ==
    /\ call.reqs # <<>>
    /\ call.reqs[1].tr.method = "POST" /\ call.reqs[1].tr.st = "returned"
    /\ call.reqs[1].body.json = "data"

SeasonTable(m) ==
    CASE m \in {12, 1, 2} -> "WINTER"
      [] m \in {3, 4, 5} -> "SPRING"
      [] m \in {6, 7, 8} -> "SUMMER"
      [] m \in {9, 10, 11} -> "FALL"

\* the season and the year the claim expects the query to carry: those
\* given (a season name, a year other than 0), else those of today
WantedSeason(a) ==
    IF a.season = NoArg THEN SeasonTable(a.today.month) ELSE Upper(a.season)
WantedYear(a) == IF a.year.some THEN a.year.v ELSE a.today.year

MangaStep ==
    /\ call.pc = "idle" /\ call'.op = "season_top" /\ call'.pc = "done"
    /\ Upper(call'.args.kind) = "MANGA"

MangaKey(a) ==
    cache_key_gql("manga_trending",
                  << <<"type", VStr("MANGA")>>, <<"per", VInt(ClampLimit(a.limit))>> >>)

\* C24: season_top with kind MANGA in any letter case makes one primary
\* query, the trending query carrying only the type and the clamped limit
\* (no season, no year, whatever season, year and sort were given), and an
\* answer that is no error has season null and year null.
C24_MangaAliasing ==
    [][MangaStep =>
          /\ hits' + misses' = hits + misses + 1
          /\ (DOMAIN cache') \ (DOMAIN cache) \subseteq {MangaKey(call'.args)}
          /\ (call'.reqs # <<>> /\ call'.reqs[1].tr.st = "returned"
                /\ call'.reqs[1].body.json = "data") =>
                MangaKey(call'.args) \in DOMAIN cache'
          /\ (ret'.tag = "value" /\ ~ret'.val.iserr) =>
                (ret'.val.season = VNull /\ ret'.val.year = VNull)]_vars

\* season_top(kind="Manga", season="fall", year=2020) was answered by the
\* primary and has returned with season and year null.
C24_Witness ==
    /\ SeasonDone /\ call.args.kind = "Manga"
    /\ call.args.season = "fall" /\ call.args.year = IntArg(2020)
    /\ Len(call.reqs) = 1 /\ PrimaryStored
    /\ ret.tag = "value" /\ ~ret.val.iserr /\ ret.val.season = VNull
    /\ MangaKey(call.args) \in DOMAIN cache
\* ------------------------------------------------------------------------
\* The score of a fallback-catalog item:
\* `int(score * 10) if isinstance(score, (int, float)) else None`
\* (search.py:93, trending.py:66, 151, 211, details.py:54).  A JSON number
\* is held in hundredths; a float product score * 10 truncated by int() is
\* the hundredths times 10, divided by 100 and cut to its integer part.
\* ------------------------------------------------------------------------

JNum(h) == [t |-> "num", h |-> h]
JStr == [t |-> "str", h |-> 0]          \* a string such as "8.5" or "N/A"
JNull == [t |-> "null", h |-> 0]        \* "score": null
JAbsent == [t |-> "absent", h |-> 0]    \* no "score" member

\* A conversion that reports 0 for what is no number.
jikan_score_or_zero(v) ==
    IF v.t = "num" THEN VInt((v.h * 10) \div 100) ELSE VInt(0)

jikan_score(v) ==
    IF v.t = "num" THEN VInt((v.h * 10) \div 100) ELSE VNull

ScoreInputs == {JNum(h) : h \in 0..1000} \cup {JStr, JNull, JAbsent}

ScoringTools == {"search_media", "trending", "season_top", "media_details"}

\* One item of a fallback answer is converted by one of the four tools.
ScoreItem ==
    /\ call.pc = "idle"
    /\ \E tool \in ScoringTools, v \in ScoreInputs :
          /\ call' = [NoCall EXCEPT !.op = "score", !.pc = "done",
                                    !.args = [tool |-> tool, score |-> v]]
          /\ ret' = Returned(jikan_score(v))
    /\ UNCHANGED <<cache, hits, misses, now, req>>

SpecScore == Init /\ [][ScoreItem]_vars

ScoreDone == call.op = "score" /\ call.pc = "done"

LastHadErrors ==
    /\ call.reqs # <<>>
    /\ LastReq.tr.method = "POST" /\ LastReq.tr.st = "returned"
    /\ LastReq.body.json = "errors"

WithoutFallback ==
    /\ call.pc = "done"
    /\ call.op \in {"media_details", "airing_status", "airing_calendar", "resolve_title"}
    /\ call.op = "media_details" => call.args.source = "anilist"

\* C26: media_details(source='anilist'), airing_status, airing_calendar
\* and resolve_title, when the primary's JSON answer holds an 'errors'
\* member, return the error envelope with code UNEXPECTED, source anilist
\* and the serialized errors list as message.
C26_GraphQLErrors ==
    (WithoutFallback /\ LastHadErrors) =>
        /\ ret.tag = "value" /\ ret.val.mapping /\ ret.val.iserr
        /\ ret.val.code = PlainCode("UNEXPECTED")
        /\ ret.val.esource = "anilist"
        /\ ret.val.message = Msg("errors list", 0)

\* airing_status(query="x") resolved a candidate, its schedule query was
\* answered with an errors list, and it has returned UNEXPECTED.
C26_Witness ==
    /\ call.pc = "done" /\ call.op = "airing_status"
    /\ Len(call.reqs) = 2 /\ LastHadErrors
    /\ ret.val.iserr /\ ret.val.code = PlainCode("UNEXPECTED")

\* ------------------------------------------------------------------------
\* Two dicts hold the same (name, value) pairs.
SamePairs(v, w) == {v[i] : i \in DOMAIN v} = {w[i] : i \in DOMAIN w}

SameCall(a, b) == a.query = b.query /\ SamePairs(a.variables, b.variables)

\* C27: the cache key of a gql call depends on the query text and on the
\* name -> value pairs of its variables alone.  A call that follows a
\* successful one with the same query and the same pairs, in whatever
\* insertion order, has the same key and, while the entry is alive, is a hit
\* that is handed the value the first call returned; a call whose query text
\* or variable values differ has another key and is handed the entry of its
\* own key only.
C27_KeyDeterminism ==
    [][(GqlDone /\ LookupStep) =>
          /\ SameCall(call.args, call'.args) <=> (call'.k = call.k)
          /\ ret.tag = "value" => call.k \in DOMAIN cache
          /\ (/\ SameCall(call.args, call'.args)
              /\ ret.tag = "value"
              /\ now < MapGet(cache, call.k).exp) =>
                 /\ hits' = hits + 1 /\ misses' = misses
                 /\ call'.val = ret.val
          /\ ~SameCall(call.args, call'.args) =>
                 /\ call'.it = MapGet(cache, call'.k)
                 /\ MapGet(cache', call.k) = MapGet(cache, call.k)]_vars

\* The call that gives its variables as (n, q) is a hit on the only entry
\* of the map, which the one miss so far has stored.
C27_Witness ==
    /\ call.op = "gql" /\ call.pc = "looked"
    /\ call.args.variables[1][1] = "n"
    /\ IsCached(call.val)
    /\ hits = 1 /\ misses = 1
    /\ DOMAIN cache = {cache_key_gql("Q", << <<"q", VStr("x")>>, <<"n", VInt(1)>> >>)}

\* ------------------------------------------------------------------------
CalendarDone == call.pc = "done" /\ call.op = "airing_calendar"

\* the range a given value is brought into
Within(lo, hi, x) == IF x < lo THEN lo ELSE IF x > hi THEN hi ELSE x

\* C28: for every integer days and per_page, airing_calendar works with
\* days brought into 1..30 and per_page brought into 1..50: the query it
\* puts to the primary has the window from now to now + days' * 86400 and
\* the page size per', and an answer that is no error reports days'.
C28_CalendarClamping ==
    /\ \A x \in -40..120 :
          /\ ClampDays(x) = Within(1, 30, x)
          /\ ClampPer(x) = Within(1, 50, x)
    /\ (CalendarDone /\ PrimaryStored) =>
          cache_key_gql("calendar",
              CalendarQuery(call.t, Within(1, 30, call.args.days),
                            Within(1, 50, call.args.per_page)))
            \in DOMAIN cache
    /\ (CalendarDone /\ ret.tag = "value" /\ ~ret.val.iserr) =>
          ret.val.days = VInt(Within(1, 30, call.args.days))

\* airing_calendar(days=0, per_page=100) was answered by the primary and
\* has reported one day.
C28_Witness ==
    /\ CalendarDone /\ call.args.days = 0 /\ call.args.per_page = 100
    /\ PrimaryStored /\ Len(call.reqs) = 1
    /\ ret.tag = "value" /\ ~ret.val.iserr /\ ret.val.days = VInt(1)
    /\ cache_key_gql("calendar", CalendarQuery(call.t, 1, 50)) \in DOMAIN cache

\* ------------------------------------------------------------------------
\* The choice of the best candidate (tools/resolve.py).  A candidate is a
\* normalized hit, held as its rank in the primary's answer and its format
\* (NoArg for a null format).
\* ------------------------------------------------------------------------

MaxCandidates == 3

Candidate(rank, format) == [rank |-> rank, format |-> format]
NoHit == Candidate(0, NoArg)            \* None

\* `x or ""`
OrEmpty(x) == IF x = NoArg THEN "" ELSE x

\* A choice that takes the first candidate whatever is preferred.
best_first(cands, prefer_format) == IF cands # <<>> THEN cands[1] ELSE NoHit

\* _best_by_format (cands: its `hits`)
best_by_format(cands, prefer_format) ==
    LET pf == Upper(OrEmpty(prefer_format))
        same == {i \in DOMAIN cands : Upper(OrEmpty(cands[i].format)) = pf}
    IN  IF pf # "" /\ same # {}
        THEN cands[CHOOSE i \in same : \A m \in same : i <= m]
        ELSE IF cands # <<>> THEN cands[1] ELSE NoHit

\* the 'result' member of a resolve_title answer
ResultField(best) == [result |-> best]

\* resolve_title once the candidates are there: `if not best: ...`
resolve_found(cands, prefer_format) ==
    LET best == best_by_format(cands, prefer_format) IN
    IF best = NoHit THEN Envelope("", "", -1, "NOT_FOUND")
    ELSE Envelope("", "", -1, "") @@ ResultField(best)

CandidateFormats == {"TV", "Tv", "MOVIE", NoArg}
PreferredFormats == {NoArg, "", "tv", "TV", "movie", "OVA"}

CandidateLists ==
    UNION {{[i \in 1..n |-> Candidate(i, f[i])] : f \in [1..n -> CandidateFormats]} :
              n \in 0..MaxCandidates}

\* resolve_title has its candidates and answers.
ResolveBest ==
    /\ call.pc = "idle"
    /\ \E hs \in CandidateLists, pf \in PreferredFormats :
          /\ call' = [NoCall EXCEPT !.op = "resolve_best", !.pc = "done",
                                    !.args = [hits |-> hs, prefer_format |-> pf]]
          /\ ret' = Returned(resolve_found(hs, pf))
    /\ UNCHANGED <<cache, hits, misses, now, req>>

SpecBest == Init /\ [][ResolveBest]_vars

BestDone == call.op = "resolve_best" /\ call.pc = "done"

\* The formats that are equal but for the case of their letters.
FormatClass(x) ==
    CASE x \in {"tv", "Tv", "TV"} -> 1
      [] x \in {"movie", "MOVIE"} -> 2
      [] x = "OVA" -> 3
      [] OTHER -> 0

SameFormat(x, y) == FormatClass(x) # 0 /\ FormatClass(x) = FormatClass(y)

\* C29: when a preferred format is given and some candidate's format is
\* equal to it but for letter case, resolve_title's result is the first such
\* candidate in rank order; otherwise it is the first candidate; with no
\* candidate the answer has status NOT_FOUND and is no error.
C29_BestMatch ==
    BestDone =>
        LET hs == call.args.hits
            pf == call.args.prefer_format
            same == {i \in DOMAIN hs : SameFormat(hs[i].format, pf)}
        IN  /\ ret.tag = "value" /\ ~ret.val.iserr
            /\ same # {} =>
                  /\ ret.val.result.rank \in same
                  /\ \A i \in same : ret.val.result.rank <= i
                  /\ ret.val.result = hs[ret.val.result.rank]
            /\ (same = {} /\ hs # <<>>) => ret.val.result = hs[1]
            /\ hs = <<>> => ret.val.status = "NOT_FOUND"
            /\ hs # <<>> => ret.val.status = ""

\* With "movie" preferred and the candidates TV, MOVIE, MOVIE in rank order
\* the result is the second candidate.
C29_Witness ==
    /\ BestDone
    /\ call.args.prefer_format = "movie"
    /\ call.args.hits = <<Candidate(1, "TV"), Candidate(2, "MOVIE"), Candidate(3, "MOVIE")>>
    /\ ret.val.result = Candidate(2, "MOVIE")

\* ------------------------------------------------------------------------
\* C30: within one transport request a sleep is taken only between an
\* attempt and the next one: while the request runs every attempt made so
\* far was followed by a sleep, once it has ended the sleeps are one fewer
\* than the attempts (none after the attempt that returned or raised) and
\* at most 2; and the k-th sleep lasts at least 0.7 * 2^(k-1) s and less
\* than 0.7 * 2^(k-1) + 0.4 s (in tenths: 7, then 14, plus less than 4).
C30_BackoffSchedule ==
    /\ req.st = "running" =>
          /\ Len(req.sleeps) = Len(req.log)
          /\ Len(req.log) = req.attempt /\ req.attempt < 3
    /\ req.st \in {"returned", "raised"} =>
          /\ Len(req.sleeps) = Len(req.log) - 1
          /\ Len(req.sleeps) <= 2
    /\ \A k \in DOMAIN req.sleeps :
          /\ req.sleeps[k] >= 7 * 2^(k - 1)
          /\ req.sleeps[k] < 7 * 2^(k - 1) + 4

\* Two failed attempts and a third that returned: the request slept 0.7 s
\* and then 1.4 s plus the largest jitter.
C30_Witness ==
    /\ TransportDone /\ req.st = "returned"
    /\ Len(req.log) = 3
    /\ req.sleeps = <<7, 17>>

\* ------------------------------------------------------------------------
\* The step that takes a whole search_media or media_details invocation
\* with source 'jikan'.
JikanStep ==
    /\ call.pc = "idle" /\ call'.pc = "done"
    /\ call'.op \in {"search_media", "media_details"}
    /\ call'.args.source = "jikan"

\* C31: search_media and media_details called with source 'jikan' send no
\* request to the primary catalog (every request of the invocation is a GET
\* to the fallback catalog) and leave the cache map, the hit counter and
\* the miss counter as they were.
C31_ExplicitFallback ==
    [][JikanStep =>
          /\ cache' = cache /\ hits' = hits /\ misses' = misses
          /\ \A i \in DOMAIN call'.reqs :
                call'.reqs[i].tr.method = "GET" /\ call'.reqs[i].tr.target = "jikan"]_vars

\* search_media(source='jikan') has been answered by the fallback catalog
\* while the cache held an entry of an earlier call.
C31_Witness ==
    /\ call.pc = "done" /\ call.op = "search_media" /\ call.args.source = "jikan"
    /\ Len(call.reqs) = 1 /\ call.reqs[1].tr.method = "GET"
    /\ ret.tag = "value" /\ ~ret.val.iserr
    /\ cache # <<>> /\ misses = 1

\* ------------------------------------------------------------------------
\* The lookup of the gql call in hand recorded a hit.
RecordedHit == call.it.present /\ ~Expired(call.it, call.t)

\* The step in which a gql call goes on from its lookup to its end.
AfterLookup == call.op = "gql" /\ call.pc = "looked" /\ call'.pc = "done"

\* C32 (as claimed): whatever the upstream returns as 'data', null
\* included, a gql call increments exactly one of the hit counter and the
\* miss counter (in its lookup, and never again), and it invokes the
\* transport if and only if the miss counter was the one incremented: a call
\* that records a hit never reaches the transport.
C32_HitIffNoTransport ==
    [][/\ LookupStep =>
            /\ \/ hits' = hits + 1 /\ misses' = misses
               \/ hits' = hits /\ misses' = misses + 1
            /\ (hits' = hits + 1) <=> (call'.it.present /\ ~Expired(call'.it, now))
       /\ AfterLookup =>
            /\ hits' = hits /\ misses' = misses
            /\ (call'.reqs # <<>>) <=> ~RecordedHit]_vars

\* ------------------------------------------------------------------------
\* The invocations that fetched under key k and stored what they received.
Writers(k) == {t \in Threads : call[t].pc = "done" /\ call[t].k = k /\ call[t].set.present}

\* Every invocation is over, and each one that used key k has fetched and
\* stored.
AllWrote(k) ==
    /\ \A t \in Threads : call[t].pc = "done"
    /\ \A t \in Threads : call[t].k = k => (call[t].sent /\ call[t].set.present)

\* The step in which invocation t fetches and stores.
WriteStep(t) == call[t].pc = "looked" /\ call'[t].pc = "done" /\ call'[t].set.present

\* C33: nothing keeps two concurrent gql invocations with one key from both
\* fetching.  Each successful fetch overwrites the entry of its key with its
\* own value and its own expiry and touches no other key, so when all the
\* invocations with the key have succeeded the map holds one entry for it,
\* the one of whichever wrote last.
C33_DuplicateFetch ==
    /\ [][\A t \in Threads : WriteStep(t) =>
              /\ call'[t].sent
              /\ call'[t].set.exp = now + CACHE_TTL
              /\ cache' = MapPut(cache, call[t].k, call'[t].set)]_vars
    /\ [](\A k \in ThreadKeys : (AllWrote(k) /\ Cardinality(Writers(k)) >= 2) =>
              /\ k \in DOMAIN cache
              /\ \E t \in Writers(k) :
                    /\ cache[k] = call[t].set
                    /\ \A u \in Writers(k) : call[u].set.exp <= call[t].set.exp)

\* Both invocations missed on the same key and fetched; the one that wrote
\* later, and another value, has its entry in the map.
C33_Witness ==
    /\ call[1].pc = "done" /\ call[2].pc = "done"
    /\ call[1].k = call[2].k
    /\ call[1].sent /\ call[2].sent
    /\ ~call[1].it.present /\ ~call[2].it.present
    /\ misses = 2
    /\ call[1].set.present /\ call[2].set.present
    /\ call[1].set.data # call[2].set.data
    /\ call[1].set.exp < call[2].set.exp
    /\ cache[call[1].k] = call[2].set

\* ------------------------------------------------------------------------
\* The step that takes a whole invocation of a tool with a fallback.
FallbackToolStep ==
    /\ call.pc = "idle" /\ call'.pc = "done"
    /\ call'.op \in {"search_media", "trending", "season_top"}
    /\ (call'.op = "search_media" => call'.args.source = "anilist")

RequestsBy(rs, method) == {i \in DOMAIN rs : rs[i].tr.method = method}

\* the primary answered with a page the tool can list
PostUsable(u) ==
    u.tr.st = "returned" /\ u.body.json = "data" /\ u.body.data.shape = "page"

\* C34: in search_media(source='anilist'), trending and season_top at most
\* one request goes to the fallback catalog, as the last request of the
\* invocation, and only after the primary attempt has failed: its POST was
\* given up, refused or answered with nothing usable, or (no POST made) the
\* value found in the cache could not be listed.  An invocation whose primary
\* attempt succeeds, from the cache or from the network, sends none.
C34_FallbackAfterFailure ==
    [][FallbackToolStep =>
          LET rs == call'.reqs
              gets == RequestsBy(rs, "GET")
              posts == RequestsBy(rs, "POST")
          IN  /\ Cardinality(gets) <= 1 /\ gets \subseteq {Len(rs)}
              /\ posts \subseteq {1}
              /\ gets # {} =>
                    \/ posts = {1} /\ ~PostUsable(rs[1])
                    \/ /\ posts = {} /\ hits' = hits + 1
                       /\ \E k \in DOMAIN cache : cache[k].data.shape # "page"
              /\ (posts = {1} /\ PostUsable(rs[1])) => gets = {}
              /\ rs = <<>> => hits' = hits + 1
              /\ (ret'.tag = "value" /\ ~ret'.val.iserr /\ ret'.val.isrc = "anilist")
                    => gets = {}
              /\ gets = {} =>
                    (ret'.tag = "value" /\ ~ret'.val.iserr /\ ret'.val.isrc = "anilist")]_vars

\* trending has asked the fallback catalog after its primary request was
\* given up on a timeout, and has returned the fallback's items.
C34_Witness ==
    /\ call.pc = "done" /\ call.op = "trending"
    /\ Len(call.reqs) = 2
    /\ call.reqs[1].tr.method = "POST" /\ RunFailed(call.reqs[1])
    /\ call.reqs[1].tr.attempts = 3
    /\ call.reqs[2].tr.method = "GET"
    /\ ret.tag = "value" /\ ~ret.val.iserr /\ ret.val.isrc = "jikan"

\* ------------------------------------------------------------------------
ClearStep == call'.op = "cache_clear" /\ now' = now
InfoStep == call'.op = "cache_info" /\ now' = now

\* the lookup of this step finds an expired entry under its key
ExpiredLookup == LookupStep /\ call'.it.present /\ Expired(call'.it, now)

\* C35: an entry leaves the map only in a lookup of its own key made after
\* its expiry or in a cache_clear; whatever else happens (lookups, misses
\* and inserts of other keys, the passing of time) it stays, and cache_info
\* counts it in 'size' expired or not.  Between clears the size of the map
\* decreases only in a lookup of an expired key.
C35_LazyEviction ==
    [][/\ \A k \in DOMAIN cache :
            k \notin DOMAIN cache' => (ClearStep \/ (ExpiredLookup /\ call'.k = k))
       /\ Cardinality(DOMAIN cache') < Cardinality(DOMAIN cache) =>
            (ClearStep \/ ExpiredLookup)
       /\ InfoStep =>
            /\ ret'.val.size = Cardinality(DOMAIN cache)
            /\ cache' = cache]_vars

\* cache_info reports size 2 while one of the two entries has expired, the
\* other having been stored by a call made after that expiry.
C35_Witness ==
    /\ call.op = "cache_info" /\ call.pc = "done"
    /\ ret.val.size = 2
    /\ \E k1, k2 \in DOMAIN cache :
          /\ Expired(cache[k1], call.t)
          /\ cache[k2].exp - CACHE_TTL > cache[k1].exp

\* ------------------------------------------------------------------------
\* the last request went to the primary and gql raised on it: the transport
\* gave it up, or the body was no JSON, held 'errors' or held no 'data'
PrimaryCallFailed ==
    /\ call.reqs # <<>>
    /\ LastReq.tr.method = "POST"
    /\ \/ RunFailed(LastReq)
       \/ LastReq.body.json \in {"nonjson", "errors", "nodata"}

\* C36: media_details(source='anilist'), airing_status, airing_calendar and
\* resolve_title send every request to the primary catalog and none to the
\* fallback catalog; when the primary call fails they return an error
\* envelope, and every error envelope they return names anilist as source.
C36_NoAutomaticFallback ==
    WithoutFallback =>
        /\ \A i \in DOMAIN call.reqs :
              call.reqs[i].tr.method = "POST" /\ call.reqs[i].tr.target = "anilist"
        /\ ret.tag = "value" /\ ret.val.mapping
        /\ PrimaryCallFailed => ret.val.iserr
        /\ ret.val.iserr => ret.val.esource = "anilist"

\* media_details(source='anilist') has returned the TIMEOUT envelope of
\* anilist after its one request, given up after three attempts.
C36_Witness ==
    /\ call.pc = "done" /\ call.op = "media_details" /\ call.args.source = "anilist"
    /\ Len(call.reqs) = 1 /\ RunFailed(call.reqs[1])
    /\ call.reqs[1].tr.attempts = 3
    /\ ret.val.iserr /\ ret.val.esource = "anilist"
    /\ ret.val.code = PlainCode("TIMEOUT")

\* ------------------------------------------------------------------------
\* Tool invocations followed attempt by attempt: the handler starts, each
\* upstream request it sends runs the loop of _req one iteration at a time,
\* and the handler goes on with what the request gave.  The clock stands
\* still and the cache is empty when a tool is invoked (a value found in
\* the cache only spares a request).  A handler's code up to its first request changes nothing but
\* what its lookup changes, so the lookup is accounted for when the answer
\* is there.
\* ------------------------------------------------------------------------

RunOutcomes == {Resp(200, "library"), HttpErr(503, "double"), TimeoutErr}

Handler(op, st, a, up) ==
    CASE op = "search_media" -> search_media(st, a, up)
      [] op = "media_details" -> media_details(st, a, up)
      [] op = "trending" -> trending(st, a, up)
      [] op = "season_top" -> season_top(st, a, up)
      [] op = "airing_status" -> airing_status(st, a, up)
      [] op = "airing_calendar" -> airing_calendar(st, a, up)
      [] OTHER -> resolve_title(st, a, up)

RunArgs(op) ==
    CASE op = "search_media" -> {a \in SearchArgs : a.limit = 100 /\ a.source # "kitsu"}
      [] op = "media_details" -> DetailsArgs
      [] op = "trending" -> TrendingArgs
      [] op = "season_top" -> {a \in SeasonArgs : a.today.month = 1}
      [] op = "airing_status" -> {a \in AiringArgs : a.query = "x"}
      [] op = "airing_calendar" -> {a \in CalendarArgs : a.days = 7}
      [] OTHER -> ResolveArgs

\* what can come back for the finished request r of the invocation c
Answers(r, c) ==
    CASE c.stage = "get" ->
            Exchanges({Summary(r)}, {b \in JikanBodies : b.nullFrom => b.n > 0}, JikanRefusals)
      [] c.stage = "post" \/ c.op = "media_details"
           \/ (c.op = "airing_status" /\ c.args.anilist_id.some) ->
            Exchanges({Summary(r)}, MediaBodies, JsonFailures)
      [] OTHER -> Exchanges({Summary(r)}, PageBodies, JsonFailures)

RunState == [State EXCEPT !.reqs = call.reqs]

\* stage: "first" (the handler's first request), "get" (the fallback
\* request) or "post" (the schedule query of airing_status)
RunCall(op, a, stage, mid, reqs) ==
    [stage |-> stage, mid |-> mid]
    @@ [NoCall EXCEPT !.op = op, !.pc = "attempt", !.args = a, !.t = now, !.reqs = reqs]

RunFinish(op, a, p) ==
    /\ cache' = p.st.cache
    /\ hits' = p.st.hits
    /\ misses' = p.st.misses
    /\ now' = p.st.now
    /\ call' = [NoCall EXCEPT !.op = op, !.pc = "done", !.args = a, !.t = now,
                              !.reqs = p.st.reqs]
    /\ ret' = p.ret
    /\ req' = NoReq

\* The handler sends its next request.
RunGo(op, a, p) ==
    /\ cache' = p.st.cache
    /\ hits' = p.st.hits
    /\ misses' = p.st.misses
    /\ now' = p.st.now
    /\ call' = RunCall(op, a, p.next, p.mid, p.st.reqs)
    /\ req' = IF p.next = "get" THEN http_get("jikan") ELSE http_post("anilist")
    /\ ret' = NoRet

\* the server has looked nothing up yet
FreshServer == cache = <<>> /\ hits = 0 /\ misses = 0

\* A tool is invoked on a fresh server and runs up to its first request, if
\* it makes one.
RunInvoke ==
    /\ call.pc = "idle"
    /\ FreshServer
    /\ \E op \in CatalogTools : \E a \in RunArgs(op) :
          LET p == Handler(op, State, a, NoUp) IN
          IF p.st.reqs = <<>>
          THEN IF p.next = "done" THEN RunFinish(op, a, p) ELSE RunGo(op, a, p)
          ELSE /\ call' = RunCall(op, a, "first", 0, <<>>)
               /\ req' = http_post("anilist")
               /\ ret' = NoRet
               /\ UNCHANGED <<cache, hits, misses, now>>

\* One iteration of the loop of _req.
RunAttempt ==
    /\ call.pc = "attempt" /\ req.st = "running"
    /\ \E o \in RunOutcomes : req' = ReqStep(req, o, 0)
    /\ UNCHANGED <<cache, hits, misses, now, call, ret>>

\* _req has returned or raised; the handler goes on.
RunAnswer ==
    /\ call.pc = "attempt" /\ req.st # "running"
    /\ \E up \in Answers(req, call) :
          LET p == CASE call.stage = "first" -> Handler(call.op, RunState, call.args, up)
                     [] call.stage = "get" -> Fallback(call.op, RunState, call.args, up)
                     [] OTHER -> airing_schedule(RunState, call.mid, up)
          IN  IF p.next = "done" THEN RunFinish(call.op, call.args, p)
              ELSE RunGo(call.op, call.args, p)

NextRun == RunInvoke \/ RunAttempt \/ RunAnswer \/ Respond

\* Every attempt ends, and a handler that has its answer goes on.
SpecRun == Init /\ [][NextRun]_vars /\ WF_vars(RunAttempt) /\ WF_vars(RunAnswer)

RECURSIVE SumAttempts(_)
SumAttempts(rs) == IF rs = <<>> THEN 0 ELSE Head(rs).tr.attempts + SumAttempts(Tail(rs))

\* the attempts of the invocation in hand, those of the running request included
TotalAttempts == SumAttempts(call.reqs) + Len(req.log)

RequestLimit(op) ==
    IF op \in {"search_media", "trending", "season_top", "airing_status"} THEN 2 ELSE 1

BoundedWork ==
    call.op \in CatalogTools =>
        /\ Len(req.log) <= 3
        /\ \A i \in DOMAIN call.reqs : call.reqs[i].tr.attempts <= 3
        /\ Len(call.reqs) + (IF call.pc = "attempt" THEN 1 ELSE 0) <= RequestLimit(call.op)
        /\ TotalAttempts <= 3 * RequestLimit(call.op)
        /\ call.op \in {"search_media", "trending", "season_top"} =>
              /\ Cardinality(RequestsBy(call.reqs, "POST")) <= 1
              /\ Cardinality(RequestsBy(call.reqs, "GET")) <= 1
        /\ call.op = "airing_status" => RequestsBy(call.reqs, "GET") = {}

\* C37: provided every attempt ends, every tool invocation returns, after at
\* most 3 attempts per upstream request and at most 6 attempts in all: one
\* POST and one GET request for search_media, trending and season_top, two
\* POST requests for airing_status, one request (3 attempts) for
\* media_details, airing_calendar and resolve_title.
C37_BoundedWork ==
    /\ []BoundedWork
    /\ (call.pc = "attempt") ~> (call.pc = "done")

\* search_media has returned after six attempts: three on the primary, all
\* timed out, and three on the fallback catalog.
C37_Witness ==
    /\ call.pc = "done" /\ call.op = "search_media"
    /\ Len(call.reqs) = 2
    /\ call.reqs[1].tr.method = "POST" /\ call.reqs[1].tr.attempts = 3
    /\ call.reqs[2].tr.method = "GET" /\ call.reqs[2].tr.attempts = 3
    /\ ret.tag = "value"

====
